---- MODULE Spec2Model ----
(***************************************************************************)
(* The "Ethereum Snake" game loop of src/src/game.js (createGame) as a     *)
(* state machine: the run state, the two timers' callbacks (step,          *)
(* tickTimer), the direction input (applyDirection) and the lifecycle      *)
(* operations (start, pause, resume, togglePause).  The clock read by      *)
(* performance.now() is the variable now; the host advances it between     *)
(* callbacks.  Random draws (Phaser.Math.Between, Math.random) are inputs  *)
(* of the actions.                                                         *)
(***************************************************************************)
EXTENDS Integers, Sequences, FiniteSets, TLC

VARIABLES
    sceneRef,         \* create() has run: the scene exists, both timers run
    snake,            \* cells, head first
    direction,        \* direction applied on the last movement tick
    nextDirection,    \* direction queued by the last accepted input
    speed,            \* the variable speed
    moveTimerDelay,   \* moveTimer.delay, the interval the running timer uses (0: no timer yet)
    foods,            \* array of food items
    score,
    timeLeft,
    isPaused,
    isGameOver,
    reverseUntil,
    stunUntil,
    poweredEatTimes,
    lastL2,
    now,              \* performance.now()
    hud,              \* last value handed to onScore / onTime / onSecurity / onLastL2
    over,             \* terminal callbacks (onGameOver, onWin) fired since the last start()
    eatLog,           \* history: kind and clock reading of every scored eat of the current run
    runs,             \* history: number of effective start() calls
    moves,            \* history: movement ticks of the current run that got past the guards
    ticks,            \* history: 1 s ticks since the last start() that got past the guard
    usersCollection,    \* the wall API: documents of the users collection
    projectsCollection, \* the wall API: documents of the projects collection
    kudosCollection,    \* the wall API: documents of the kudos collection, in insertion order
    res,                \* the wall API: the last request handled and the status it was answered with
    bestScore,          \* Leaderboard: mapping(address => uint256) bestScore
    top,                \* Leaderboard: Entry[] top
    receipt,            \* Leaderboard: the last submitScore call and whether it reverted
    main                \* the state of the second copy of the engine, src/main.js

\* the state of the wall API (src/unnamed/part_004, src/server/index.js)
serverVars == <<usersCollection, projectsCollection, kudosCollection, res>>

\* the state of the game (src/src/game.js)
gameVars == <<sceneRef, snake, direction, nextDirection, speed, moveTimerDelay, foods, score,
              timeLeft, isPaused, isGameOver, reverseUntil, stunUntil, poweredEatTimes, lastL2,
              now, hud, over, eatLog, runs, moves, ticks>>

\* the storage of the Leaderboard contract (src/unnamed/part_001)
chainVars == <<bestScore, top, receipt>>

vars == <<gameVars, serverVars, chainVars, main>>

----------------------------------------------------------------------------
(* Program constants *)

GRID_SIZE == 20
TARGET_SCORE == 100
START_TIME == 90
INITIAL_SPEED == 140
INITIAL_FOODS == 4
MAX_FOODS == 5
MAX_TRIES == 200
POWERED_WINDOW == 15000
COLLAPSE_COUNT == 3
STUN_MS == 2000
REVERSE_MS == 3000
DRAIN_MAX == 3
MIN_SNAKE == 2

\* FOOD_TYPES with the values of jam and drain exchanged
FOOD_TYPES_JamDrainSwapped ==
    [normal |-> 3, shield |-> 8, fraud |-> 10, jam |-> 6, drain |-> 8]

FOOD_TYPES ==
    [normal |-> 3, shield |-> 8, fraud |-> 10, jam |-> 8, drain |-> 6]

L2S == <<
    [name |-> "Arbitrum", type |-> "fraud"],
    [name |-> "Optimism", type |-> "jam"],
    [name |-> "Base",     type |-> "normal"],
    [name |-> "zkSync",   type |-> "shield"],
    [name |-> "Starknet", type |-> "drain"],
    [name |-> "Linea",    type |-> "normal"],
    [name |-> "Scroll",   type |-> "shield"] >>

POWERED_TYPES == {"shield", "fraud", "jam", "drain"}

HitWall == "Hit the wall."
HitSelf == "Hit yourself."
FraudEaten == "A fraud-proof L2 was eaten before verification."
Collapse == "Security collapse: too many powered L2s in a short window."
TimeOut == "Time ran out."
NoL2 == "-"
NoReason == ""

Right == [x |-> 1, y |-> 0]
Left == [x |-> -1, y |-> 0]
Up == [x |-> 0, y |-> -1]
Down == [x |-> 0, y |-> 1]
Directions == {Right, Left, Up, Down}

Cell(cx, cy) == [x |-> cx, y |-> cy]

InitialSnake == <<Cell(8, 10), Cell(7, 10), Cell(6, 10)>>

----------------------------------------------------------------------------
(* Helpers for arrays *)

Min(a, b) == IF a < b THEN a ELSE b
Max(a, b) == IF a > b THEN a ELSE b
Abs(a) == IF a < 0 THEN -a ELSE a

Range(q) == {q[i] : i \in 1..Len(q)}

\* foods.splice(i, 1), i counted from 1
RemoveAt(q, i) == SubSeq(q, 1, i - 1) \o SubSeq(q, i + 1, Len(q))

\* snake.splice(snake.length - loss, loss): a negative count removes nothing
DropLast(q, n) == SubSeq(q, 1, Len(q) - Max(0, Min(n, Len(q))))

SameCell(a, b) == a.x = b.x /\ a.y = b.y

----------------------------------------------------------------------------
(* The run state as one record, so that the functions of game.js become    *)
(* operators from state to state.                                          *)

Game ==
    [snake |-> snake, direction |-> direction, nextDirection |-> nextDirection,
     speed |-> speed, moveTimerDelay |-> moveTimerDelay, foods |-> foods, score |-> score,
     timeLeft |-> timeLeft, isPaused |-> isPaused, isGameOver |-> isGameOver,
     reverseUntil |-> reverseUntil, stunUntil |-> stunUntil,
     poweredEatTimes |-> poweredEatTimes, lastL2 |-> lastL2,
     hud |-> hud, over |-> over, eatLog |-> eatLog]

Becomes(g) ==
    /\ snake' = g.snake
    /\ direction' = g.direction
    /\ nextDirection' = g.nextDirection
    /\ speed' = g.speed
    /\ moveTimerDelay' = g.moveTimerDelay
    /\ foods' = g.foods
    /\ score' = g.score
    /\ timeLeft' = g.timeLeft
    /\ isPaused' = g.isPaused
    /\ isGameOver' = g.isGameOver
    /\ reverseUntil' = g.reverseUntil
    /\ stunUntil' = g.stunUntil
    /\ poweredEatTimes' = g.poweredEatTimes
    /\ lastL2' = g.lastL2
    /\ hud' = g.hud
    /\ over' = g.over
    /\ eatLog' = g.eatLog

NoHud == [score |-> -1, time |-> -1, security |-> "none", danger |-> -1, lastL2 |-> "none"]

----------------------------------------------------------------------------
(* The functions of createGame *)

\* gameOver firing the callback without setting isGameOver
gameOver_FlagNotSet(g, reason) ==
    [g EXCEPT !.over = Append(@, [cb |-> "onGameOver", reason |-> reason, score |-> g.score])]

\* gameOver(reason): isGameOver = true; onGameOver(reason, score)
gameOver(g, reason) ==
    [g EXCEPT !.isGameOver = TRUE,
              !.over = Append(@, [cb |-> "onGameOver", reason |-> reason, score |-> g.score])]

\* winGame(): isGameOver = true; onWin(score)
winGame(g) ==
    [g EXCEPT !.isGameOver = TRUE,
              !.over = Append(@, [cb |-> "onWin", reason |-> NoReason, score |-> g.score])]

\* the speed adjustDifficulty derives from the score
SpeedFor(sc) == IF sc >= 70 THEN 90 ELSE IF sc >= 40 THEN 110 ELSE INITIAL_SPEED

\* adjustDifficulty(): speed from score; if (moveTimer) moveTimer.delay = speed
adjustDifficulty(g) ==
    [g EXCEPT !.speed = SpeedFor(g.score),
              !.moveTimerDelay = IF g.moveTimerDelay # 0 THEN SpeedFor(g.score) ELSE @]

\* InWindow with the boundary included: now - t <= 15000
InWindow_Inclusive(t, clock) == clock - t <= POWERED_WINDOW

\* the test of both filters over poweredEatTimes: now - t < 15000
InWindow(t, clock) == clock - t < POWERED_WINDOW

\* poweredEatTimes.filter((t) => now - t < 15000)
FilterWindow(times, clock) == SelectSeq(times, LAMBDA t : InWindow(t, clock))

\* updateSecurityHud(): onSecurity(status, danger)
updateSecurityHud(g, clock) ==
    LET danger == Len(FilterWindow(g.poweredEatTimes, clock))
    IN [g EXCEPT !.hud.security = IF danger >= 2 THEN "Shaky" ELSE "Stable",
                 !.hud.danger = danger]

\* DrainLoss keeping one segment instead of two
DrainLoss_OffByOne(len) == Min(DRAIN_MAX, len - 1)

\* const loss = Math.min(3, snake.length - 2)
DrainLoss(len) == Min(DRAIN_MAX, len - MIN_SNAKE)

\* the powered-window update of resolveEat: push(now), then filter
PushPowered(times, clock) == FilterWindow(Append(times, clock), clock)

\* the collapse test of resolveEat: poweredEatTimes.length >= 3
IsCollapse(times) == Len(times) >= COLLAPSE_COUNT

\* IsFatalFraud with the negation of the flag lost
IsFatalFraud_WrongFlag(food) == food.type = "fraud" /\ food.verified

\* the guard of resolveEat's first return: type === 'fraud' && !food.verified
IsFatalFraud(food) == food.type = "fraud" /\ ~food.verified

\* ReachedTarget with a strict comparison
ReachedTarget_Strict(sc) == sc > TARGET_SCORE

\* the win test of resolveEat: score >= TARGET_SCORE
ReachedTarget(sc) == sc >= TARGET_SCORE

\* the kind-specific effects of resolveEat (shield, jam, drain), in the code's order
KindEffects(g, type, clock) ==
    LET g1 == IF type = "shield" THEN [g EXCEPT !.stunUntil = clock + STUN_MS] ELSE g
        g2 == IF type = "jam" THEN [g1 EXCEPT !.reverseUntil = clock + REVERSE_MS] ELSE g1
    IN IF type = "drain"
       THEN [g2 EXCEPT !.snake = DropLast(@, DrainLoss(Len(g2.snake)))]
       ELSE g2

\* resolveEat testing the collapse after the kind's effects and the difficulty
resolveEat_EffectsFirst(g, food, clock) ==
    IF IsFatalFraud(food) THEN gameOver(g, FraudEaten)
    ELSE
      LET type == food.type
          g1 == [g EXCEPT !.score = @ + FOOD_TYPES[type],
                          !.lastL2 = food.name,
                          !.hud.score = g.score + FOOD_TYPES[type],
                          !.hud.lastL2 = food.name,
                          !.eatLog = Append(@, [type |-> type, at |-> clock])]
          g2 == IF type \in POWERED_TYPES
                THEN [g1 EXCEPT !.poweredEatTimes = PushPowered(@, clock)]
                ELSE g1
          g3 == adjustDifficulty(KindEffects(g2, type, clock))
      IN IF type \in POWERED_TYPES /\ IsCollapse(g3.poweredEatTimes)
         THEN gameOver(g3, Collapse)
         ELSE IF ReachedTarget(g3.score)
              THEN winGame(g3)
              ELSE updateSecurityHud(g3, clock)

\* resolveEat(scene, food), with now = performance.now()
resolveEat(g, food, clock) ==
    IF IsFatalFraud(food) THEN gameOver(g, FraudEaten)
    ELSE
      LET type == food.type
          g1 == [g EXCEPT !.score = @ + FOOD_TYPES[type],
                          !.lastL2 = food.name,
                          !.hud.score = g.score + FOOD_TYPES[type],
                          !.hud.lastL2 = food.name,
                          !.eatLog = Append(@, [type |-> type, at |-> clock])]
          g2 == IF type \in POWERED_TYPES
                THEN [g1 EXCEPT !.poweredEatTimes = PushPowered(@, clock)]
                ELSE g1
      IN IF type \in POWERED_TYPES /\ IsCollapse(g2.poweredEatTimes)
         THEN gameOver(g2, Collapse)
         ELSE LET g3 == KindEffects(g2, type, clock)
              IN IF ReachedTarget(g3.score)
                 THEN winGame(g3)
                 ELSE updateSecurityHud(adjustDifficulty(g3), clock)

Manhattan(a, b) == Abs(a.x - b.x) + Abs(a.y - b.y)

\* verifyFraudProof(head)
verifyFraudProof(g, head) ==
    [g EXCEPT !.foods =
        [i \in 1..Len(g.foods) |->
            IF g.foods[i].type = "fraud" /\ ~g.foods[i].verified
               /\ Manhattan(g.foods[i], head) = 1
            THEN [g.foods[i] EXCEPT !.verified = TRUE]
            ELSE g.foods[i]]]

\* isOccupied looking at the snake only
isOccupied_SnakeOnly(g, pos) ==
    \E i \in 1..Len(g.snake) : SameCell(g.snake[i], pos)

\* isOccupied(pos)
isOccupied(g, pos) ==
    \/ \E i \in 1..Len(g.snake) : SameCell(g.snake[i], pos)
    \/ \E i \in 1..Len(g.foods) : SameCell(g.foods[i], pos)

\* What the do-while loop of spawnFood can leave behind: the last cell drawn
\* and the number of draws.  The loop stops at the first free cell or at the
\* 200th draw, so an occupied last cell means 200 draws were made.
LoopOutcome(g, draw) == isOccupied(g, draw.spot) => draw.tries = MAX_TRIES

\* spawnFood(scene) for one outcome of its random draws:
\* draw = [spot, tries, l2], l2 the index randomL2() picked in L2S
spawnFood(g, draw) ==
    IF Len(g.foods) >= MAX_FOODS THEN g
    ELSE IF draw.tries >= MAX_TRIES THEN g
    ELSE [g EXCEPT !.foods = Append(@, [x |-> draw.spot.x, y |-> draw.spot.y,
                                         name |-> L2S[draw.l2].name,
                                         type |-> L2S[draw.l2].type,
                                         verified |-> FALSE])]

\* OutOfGrid letting the row below the grid pass: y > GRID_SIZE
OutOfGrid_PastBottom(c) == c.x < 0 \/ c.x >= GRID_SIZE \/ c.y < 0 \/ c.y > GRID_SIZE

\* the grid test of step
OutOfGrid(c) == c.x < 0 \/ c.x >= GRID_SIZE \/ c.y < 0 \/ c.y >= GRID_SIZE

\* HitsSnake leaving out the tail, the cell this tick vacates
HitsSnake_TailExcluded(sn, c) == \E i \in 1..(Len(sn) - 1) : SameCell(sn[i], c)

\* snake.some((seg) => seg.x === newHead.x && seg.y === newHead.y)
HitsSnake(sn, c) == \E i \in 1..Len(sn) : SameCell(sn[i], c)

\* index of the first food on cell c, 0 when there is none (the for loop of step)
FoodAt(fs, c) ==
    IF \E i \in 1..Len(fs) : SameCell(fs[i], c)
    THEN CHOOSE i \in 1..Len(fs) :
            /\ SameCell(fs[i], c)
            /\ \A j \in 1..(i - 1) : ~SameCell(fs[j], c)
    ELSE 0

\* AfterEat leaving the eaten item in foods
AfterEat_NoSplice(g, i, clock) == resolveEat(g, g.foods[i], clock)

\* the state in which step calls spawnFood: the food resolved and spliced out
AfterEat(g, i, clock) ==
    LET r == resolveEat(g, g.foods[i], clock)
    IN [r EXCEPT !.foods = RemoveAt(@, i)]

\* the body of step(scene) past its three guards, up to the spawn:
\* result is [g |-> state, spawn |-> whether spawnFood is called, head |-> newHead]
Advance(g, clock) ==
    LET d == g.nextDirection
        g0 == [g EXCEPT !.direction = d]
        newHead == Cell(g.snake[1].x + d.x, g.snake[1].y + d.y)
    IN IF OutOfGrid(newHead)
       THEN [g |-> gameOver(g0, HitWall), spawn |-> FALSE, moved |-> FALSE, head |-> newHead]
       ELSE IF HitsSnake(g.snake, newHead)
       THEN [g |-> gameOver(g0, HitSelf), spawn |-> FALSE, moved |-> FALSE, head |-> newHead]
       ELSE LET g1 == [g0 EXCEPT !.snake = <<newHead>> \o @]
                i == FoodAt(g1.foods, newHead)
            IN IF i # 0
               THEN [g |-> AfterEat(g1, i, clock), spawn |-> TRUE, moved |-> TRUE,
                     head |-> newHead]
               ELSE [g |-> [g1 EXCEPT !.snake = SubSeq(@, 1, Len(@) - 1)],
                     spawn |-> FALSE, moved |-> TRUE, head |-> newHead]

\* StepSuspended with the end of the stun included: now <= stunUntil
StepSuspended_InclusiveStun(g, clock) ==
    \/ g.isPaused \/ g.isGameOver
    \/ clock <= g.stunUntil
    \/ Len(g.snake) = 0

\* the three early returns of step
StepSuspended(g, clock) ==
    \/ g.isPaused \/ g.isGameOver
    \/ clock < g.stunUntil
    \/ Len(g.snake) = 0

\* tickTimer ending the run one tick late: timeLeft < 0
tickTimer_LateExpiry(g) ==
    IF g.isPaused \/ g.isGameOver THEN g
    ELSE LET g1 == [g EXCEPT !.timeLeft = @ - 1]
         IN IF g1.timeLeft < 0 THEN gameOver(g1, TimeOut)
            ELSE [g1 EXCEPT !.hud.time = g1.timeLeft]

\* tickTimer counting down while the run is paused
tickTimer_IgnoresPause(g) ==
    IF g.isGameOver THEN g
    ELSE LET g1 == [g EXCEPT !.timeLeft = @ - 1]
         IN IF g1.timeLeft <= 0 THEN gameOver(g1, TimeOut)
            ELSE [g1 EXCEPT !.hud.time = g1.timeLeft]

\* tickTimer counting down without ever ending the run
tickTimer_NoExpiry(g) ==
    IF g.isPaused \/ g.isGameOver THEN g
    ELSE [g EXCEPT !.timeLeft = @ - 1, !.hud.time = g.timeLeft - 1]

\* tickTimer()
tickTimer(g) ==
    IF g.isPaused \/ g.isGameOver THEN g
    ELSE LET g1 == [g EXCEPT !.timeLeft = @ - 1]
         IN IF g1.timeLeft <= 0 THEN gameOver(g1, TimeOut)
            ELSE [g1 EXCEPT !.hud.time = g1.timeLeft]

\* applyDirection testing the reversal against the queued direction
applyDirection_AgainstPending(g, desired, clock) ==
    LET reverse == clock < g.reverseUntil
        next == IF reverse THEN [x |-> -desired.x, y |-> -desired.y] ELSE desired
    IN IF next.x + g.nextDirection.x = 0 /\ next.y + g.nextDirection.y = 0 THEN g
       ELSE [g EXCEPT !.nextDirection = next]

\* applyDirection with the end of the jam window included: now <= reverseUntil
applyDirection_InclusiveJam(g, desired, clock) ==
    LET reverse == clock <= g.reverseUntil
        next == IF reverse THEN [x |-> -desired.x, y |-> -desired.y] ELSE desired
    IN IF next.x + g.direction.x = 0 /\ next.y + g.direction.y = 0 THEN g
       ELSE [g EXCEPT !.nextDirection = next]

\* applyDirection testing the key as pressed, before the jam inverts it
applyDirection_TestsBeforeJam(g, desired, clock) ==
    LET reverse == clock < g.reverseUntil
        next == IF reverse THEN [x |-> -desired.x, y |-> -desired.y] ELSE desired
    IN IF desired.x + g.direction.x = 0 /\ desired.y + g.direction.y = 0 THEN g
       ELSE [g EXCEPT !.nextDirection = next]

\* applyDirection writing the direction in force as well as the queued one
applyDirection_SetsCurrent(g, desired, clock) ==
    LET reverse == clock < g.reverseUntil
        next == IF reverse THEN [x |-> -desired.x, y |-> -desired.y] ELSE desired
    IN IF next.x + g.direction.x = 0 /\ next.y + g.direction.y = 0 THEN g
       ELSE [g EXCEPT !.nextDirection = next, !.direction = next]

\* applyDirection(desired), exported as setDirection
applyDirection(g, desired, clock) ==
    LET reverse == clock < g.reverseUntil
        next == IF reverse THEN [x |-> -desired.x, y |-> -desired.y] ELSE desired
    IN IF next.x + g.direction.x = 0 /\ next.y + g.direction.y = 0 THEN g
       ELSE [g EXCEPT !.nextDirection = next]

\* start(), up to the four spawns
Reset(g) ==
    [g EXCEPT !.foods = <<>>, !.snake = InitialSnake,
              !.direction = Right, !.nextDirection = Right,
              !.score = 0, !.timeLeft = START_TIME, !.speed = INITIAL_SPEED,
              !.isPaused = FALSE, !.isGameOver = FALSE,
              !.reverseUntil = 0, !.stunUntil = 0, !.poweredEatTimes = <<>>,
              !.lastL2 = NoL2,
              !.hud = [score |-> 0, time |-> START_TIME, security |-> "Stable",
                       danger |-> -1, lastL2 |-> NoL2],
              !.over = <<>>, !.eatLog = <<>>]

\* start() once the scene exists, for the outcomes d1..d4 of its four spawns
start(g, d1, d2, d3, d4) ==
    spawnFood(spawnFood(spawnFood(spawnFood(Reset(g), d1), d2), d3), d4)

\* step verifying fraud items around the head's old cell
step_VerifyOldHead(g, clock, draw) ==
    IF StepSuspended(g, clock) THEN g
    ELSE LET a == Advance(g, clock)
         IN IF ~a.moved THEN a.g
            ELSE verifyFraudProof(IF a.spawn THEN spawnFood(a.g, draw) ELSE a.g, g.snake[1])

\* step checking the proofs before the spawn: the new item is left out
step_VerifyBeforeSpawn(g, clock, draw) ==
    IF StepSuspended(g, clock) THEN g
    ELSE LET a == Advance(g, clock)
         IN IF ~a.moved THEN a.g
            ELSE IF a.spawn THEN spawnFood(verifyFraudProof(a.g, a.head), draw)
            ELSE verifyFraudProof(a.g, a.head)

\* step(scene) for one outcome of the spawn it may make
step(g, clock, draw) ==
    IF StepSuspended(g, clock) THEN g
    ELSE LET a == Advance(g, clock)
         IN IF ~a.moved THEN a.g
            ELSE verifyFraudProof(IF a.spawn THEN spawnFood(a.g, draw) ELSE a.g, a.head)

pause(g) == [g EXCEPT !.isPaused = TRUE]
resume(g) == [g EXCEPT !.isPaused = FALSE]
togglePause(g) == [g EXCEPT !.isPaused = ~@]

----------------------------------------------------------------------------
(* The environment: which random draws, inputs and clock advances a        *)
(* specification explores.  env is a record                                *)
(*   track    cells offered to spawnFood, in order                         *)
(*   menu     for each cell of the track, the indices of L2S that          *)
(*            randomL2 may return when that cell is drawn                  *)
(*   tries    numbers of draws the loop of spawnFood may take              *)
(*   dirs     directions the player enters                                 *)
(*   advances amounts by which the clock moves between callbacks           *)
(*   maxNow, maxMoves, maxTicks, maxRuns   the bounds of the exploration   *)

\* index of the first free cell of the track, 0 when every cell is taken
FirstFree(g, track) ==
    IF \E i \in 1..Len(track) : ~isOccupied(g, track[i])
    THEN CHOOSE i \in 1..Len(track) :
            /\ ~isOccupied(g, track[i])
            /\ \A j \in 1..(i - 1) : isOccupied(g, track[j])
    ELSE 0

\* the (cell, L2) pairs a spawn may end on: the first free cell of the track
\* with an L2 of its menu, or the head's cell (occupied)
Offers(g, env) ==
    LET i == FirstFree(g, env.track)
    IN (IF i = 0 THEN {} ELSE {[spot |-> env.track[i], l2 |-> k] : k \in env.menu[i]})
       \cup (IF Len(g.snake) > 0 THEN {[spot |-> g.snake[1], l2 |-> 1]} ELSE {})

\* the outcomes of spawnFood's draws explored in state g
Draws(g, env) ==
    {d \in {[spot |-> o.spot, tries |-> n, l2 |-> o.l2] : o \in Offers(g, env), n \in env.tries} :
        LoopOutcome(g, d)}

NoDraw == [spot |-> Cell(0, 0), tries |-> MAX_TRIES, l2 |-> 1]

\* the outcomes explored for the spawn of a movement tick (one dummy when it spawns nothing)
StepDraws(g, clock, env) ==
    IF StepSuspended(g, clock) THEN {NoDraw}
    ELSE LET a == Advance(g, clock)
         IN IF a.spawn THEN Draws(a.g, env) ELSE {NoDraw}

----------------------------------------------------------------------------
(* The wall API (src/unnamed/part_004; src/server/index.js is the same     *)
(* API over SQLite, without settings, featured ids and seeding).  A        *)
(* request handler is an operator from the database and the request to     *)
(* the database and the status of the response.  What GitHub answers to    *)
(* the handler's calls is part of the request record.                      *)

\* Authorization headers: none, a token jwt.verify rejects, a token signed for user id u
NoToken == "none"
BadToken == "bad"
UserIds == {"ann", "bob"}
Tokens == {NoToken, BadToken} \cup UserIds

\* GitHub's answer to /collaborators/:login/permission; "fail": the request throws
GitHubFails == "fail"
Permissions == {"admin", "maintain", "write", "read", GitHubFails}

NoUser == [id |-> "", login |-> "", github_token |-> FALSE]

DB == [users |-> usersCollection, projects |-> projectsCollection, kudos |-> kudosCollection]

\* res.status(n).json(...) leaving the database as it is
Reply(db, n) == [db |-> db, status |-> n]

\* String.prototype.slice(0, n), strings as sequences of characters
Slice(str, n) == SubSeq(str, 1, Min(n, Len(str)))

\* usersCollection.findOne({ _id })
FindUser(db, id) == {u \in db.users : u.id = id}

\* authMiddleware: status 0 stands for next() with req.user set
authMiddleware(db, token) ==
    IF token = NoToken THEN [status |-> 401, user |-> NoUser]
    ELSE IF token = BadToken THEN [status |-> 401, user |-> NoUser]
    ELSE IF FindUser(db, token) = {} THEN [status |-> 401, user |-> NoUser]
    ELSE [status |-> 0, user |-> CHOOSE u \in FindUser(db, token) : TRUE]

\* ensureMaintainer letting every collaborator pass
ensureMaintainer_AnyCollaborator(user, gh) ==
    /\ user.github_token
    /\ gh # GitHubFails
    /\ gh \in {"admin", "maintain", "write", "read"}

\* ensureMaintainer(user, owner, repo): TRUE when it returns, FALSE when it throws
ensureMaintainer(user, gh) ==
    /\ user.github_token
    /\ gh # GitHubFails
    /\ gh \in {"admin", "maintain", "write"}

\* projectsCollection.findOne({ owner, repo })
FindProject(db, owner, repo) == {p \in db.projects : p.owner = owner /\ p.repo = repo}

\* the _id of a project document
ProjectId(owner, repo) == <<owner, repo>>

\* GET /auth/github/callback; req.profile: the GitHub user of the code, or the failure.
\* 500: OAuth not configured; 302: redirect, with the token or with the error
authCallback(db, req) ==
    IF req.profile = "unconfigured" THEN Reply(db, 500)
    ELSE IF req.profile = GitHubFails THEN Reply(db, 302)
    ELSE [db |-> [db EXCEPT !.users =
                     {u \in @ : u.id # req.profile}
                     \cup {[id |-> req.profile, login |-> req.profile, github_token |-> TRUE]}],
          status |-> 302]

\* the routes that only read: /health, /auth/github, /me, /github/repos,
\* /projects/:owner/:repo, .../kudos, .../snapshot.svg, .../stats
ReadRoutes ==
    {"GET /health", "GET /auth/github", "GET /me", "GET /github/repos", "GET project",
     "GET kudos", "GET snapshot.svg", "GET stats"}

getRoute(db, req) ==
    LET a == authMiddleware(db, req.token)
        found == FindProject(db, req.owner, req.repo)
    IN CASE req.route = "GET /health" -> Reply(db, 200)
         [] req.route = "GET /auth/github" -> Reply(db, 302)
         [] req.route = "GET /me" -> Reply(db, IF a.status # 0 THEN a.status ELSE 200)
         [] req.route = "GET /github/repos" ->
                Reply(db, IF a.status # 0 THEN a.status
                          ELSE IF req.gh = GitHubFails THEN 500 ELSE 200)
         [] req.route = "GET project" -> Reply(db, IF found = {} THEN 404 ELSE 200)
         [] req.route = "GET kudos" -> Reply(db, 200)
         [] req.route = "GET snapshot.svg" -> Reply(db, IF found = {} THEN 404 ELSE 200)
         [] req.route = "GET stats" -> Reply(db, 200)

\* the documents POST /projects/from-github seeds an empty wall with
SeedDocs(db, pid, n) ==
    [i \in 1..n |->
        [id |-> Len(db.kudos) + i, project_id |-> pid, name |-> <<"c">>, handle |-> <<"@", "c">>,
         tag |-> "community", message |-> <<"t">>, avatar_url |-> <<>>, boosts |-> 0]]

\* POST /projects/from-github; req.gh: the permission GitHub reports,
\* req.contributors: how many contributors GitHub lists, -1 when that request throws
postProjectFromGithub(db, req) ==
    LET a == authMiddleware(db, req.token)
        pid == ProjectId(req.owner, req.repo)
        db1 == IF FindProject(db, req.owner, req.repo) # {} THEN db
               ELSE [db EXCEPT !.projects = @ \cup
                       {[id |-> pid, owner |-> req.owner, repo |-> req.repo,
                         created_by |-> a.user.id,
                         settings |-> [theme |-> "warm"], featured_ids |-> {}]}]
        existingCount == Cardinality({i \in 1..Len(db1.kudos) : db1.kudos[i].project_id = pid})
    IN IF a.status # 0 THEN Reply(db, a.status)
       ELSE IF req.owner = "" \/ req.repo = "" THEN Reply(db, 400)
       ELSE IF ~ensureMaintainer(a.user, req.gh) THEN Reply(db, 500)
       ELSE IF existingCount # 0 THEN Reply(db1, 200)
       ELSE IF req.contributors < 0 THEN Reply(db1, 500)
       ELSE [db |-> [db1 EXCEPT !.kudos = @ \o SeedDocs(db1, pid, req.contributors)],
             status |-> 200]

\* PATCH /projects/:owner/:repo/settings; of the ten settings, each computed
\* as (body value || stored value || default), the model keeps theme
patchSettings(db, req) ==
    LET a == authMiddleware(db, req.token)
        found == FindProject(db, req.owner, req.repo)
    IN IF a.status # 0 THEN Reply(db, a.status)
       ELSE IF found = {} THEN Reply(db, 404)
       ELSE IF ~ensureMaintainer(a.user, req.gh) THEN Reply(db, 403)
       ELSE [db |-> [db EXCEPT !.projects =
                        {IF p \in found
                         THEN [p EXCEPT !.settings.theme =
                                  IF req.theme # "" THEN req.theme
                                  ELSE IF @ # "" THEN @ ELSE "warm"]
                         ELSE p : p \in @}],
             status |-> 200]

\* POST /projects/:owner/:repo/featured; req.kudosId = 0: no kudosId in the body
postFeatured(db, req) ==
    LET a == authMiddleware(db, req.token)
        found == FindProject(db, req.owner, req.repo)
    IN IF a.status # 0 THEN Reply(db, a.status)
       ELSE IF req.kudosId = 0 THEN Reply(db, 400)
       ELSE IF found = {} THEN Reply(db, 404)
       ELSE IF ~ensureMaintainer(a.user, req.gh) THEN Reply(db, 403)
       ELSE [db |-> [db EXCEPT !.projects =
                        {IF p \in found
                         THEN [p EXCEPT !.featured_ids = @ \cup {req.kudosId}]
                         ELSE p : p \in @}],
             status |-> 200]

\* DELETE /projects/:owner/:repo/featured/:kudosId
deleteFeatured(db, req) ==
    LET a == authMiddleware(db, req.token)
        found == FindProject(db, req.owner, req.repo)
    IN IF a.status # 0 THEN Reply(db, a.status)
       ELSE IF found = {} THEN Reply(db, 404)
       ELSE IF ~ensureMaintainer(a.user, req.gh) THEN Reply(db, 403)
       ELSE [db |-> [db EXCEPT !.projects =
                        {IF p \in found
                         THEN [p EXCEPT !.featured_ids = @ \ {req.kudosId}]
                         ELSE p : p \in @}],
             status |-> 200]

\* the document POST /projects/:owner/:repo/kudos inserts
KudosDoc(db, req) ==
    [id |-> Len(db.kudos) + 1, project_id |-> ProjectId(req.owner, req.repo),
     name |-> Slice(req.name, 80), handle |-> Slice(<<>>, 40), tag |-> "docs",
     message |-> Slice(req.message, 400), avatar_url |-> <<>>, boosts |-> 0]

\* POST /projects/:owner/:repo/kudos
postKudos(db, req) ==
    LET a == authMiddleware(db, req.token)
        found == FindProject(db, req.owner, req.repo)
    IN IF a.status # 0 THEN Reply(db, a.status)
       ELSE IF req.name = <<>> \/ req.message = <<>> THEN Reply(db, 400)
       ELSE IF found = {} THEN Reply(db, 404)
       ELSE IF ~ensureMaintainer(a.user, req.gh) THEN Reply(db, 403)
       ELSE [db |-> [db EXCEPT !.kudos = Append(@, KudosDoc(db, req))], status |-> 201]

\* POST /projects/:owner/:repo/kudos/:id/boost: no authMiddleware on this route
postBoost(db, req) ==
    LET found == FindProject(db, req.owner, req.repo)
        hit == {i \in 1..Len(db.kudos) :
                   /\ db.kudos[i].id = req.kudosId
                   /\ db.kudos[i].project_id = ProjectId(req.owner, req.repo)}
    IN IF found = {} THEN Reply(db, 404)
       ELSE IF hit = {} THEN Reply(db, 404)
       ELSE [db |-> [db EXCEPT !.kudos =
                        [i \in 1..Len(@) |->
                            IF i \in hit THEN [@[i] EXCEPT !.boosts = @ + 1] ELSE @[i]]],
             status |-> 200]

NoRequest ==
    [route |-> "", token |-> NoToken, owner |-> "", repo |-> "", gh |-> GitHubFails, status |-> 0]

----------------------------------------------------------------------------
(* The Leaderboard contract (src/unnamed/part_001): submitScore and the    *)
(* bounded list top.  Addresses are the numbers 1..MaxPlayers.  setName    *)
(* and the name mappings touch neither bestScore nor top and are left out. *)

MAX_ENTRIES == 20

MaxPlayers == 21
MaxScore == 3

Players == 1..MaxPlayers

Entry(player, value) == [player |-> player, score |-> value]

NoCall == [sender |-> 0, score |-> 0, reverted |-> FALSE, emitted |-> FALSE]

\* the first loop of _updateTop: index of the player's entry, 0 when there is none
RECURSIVE FindEntry(_, _, _)
FindEntry(t, player, i) ==
    IF i > Len(t) THEN 0
    ELSE IF t[i].player = player THEN i
    ELSE FindEntry(t, player, i + 1)

\* the minimum search always settling on the first entry
MinIndex_FirstEntry(t, i, minIndex) == 1

\* the loop `for i = 1 .. len - 1: if (top[i].score < top[minIndex].score) minIndex = i`
RECURSIVE MinIndex(_, _, _)
MinIndex(t, i, minIndex) ==
    IF i > Len(t) THEN minIndex
    ELSE MinIndex(t, i + 1, IF t[i].score < t[minIndex].score THEN i ELSE minIndex)

Swap(t, i, j) == [t EXCEPT ![i] = t[j], ![j] = t[i]]

\* the inner loop of the sort: for j = i + 1 .. len - 1, swap when top[j].score > top[i].score
RECURSIVE SortInner(_, _, _)
SortInner(t, i, j) ==
    IF j > Len(t) THEN t
    ELSE SortInner(IF t[j].score > t[i].score THEN Swap(t, i, j) ELSE t, i, j + 1)

\* the sort left out
SortOuter_Skipped(t, i) == t

\* the outer loop of the sort
RECURSIVE SortOuter(_, _)
SortOuter(t, i) ==
    IF i > Len(t) THEN t
    ELSE SortOuter(SortInner(t, i, i + 1), i + 1)

\* _updateTop(player, score)
updateTop(t, player, value) ==
    LET k == FindEntry(t, player, 1)
    IN IF k # 0 THEN SortOuter([t EXCEPT ![k].score = value], 1)
       ELSE IF Len(t) < MAX_ENTRIES THEN SortOuter(Append(t, Entry(player, value)), 1)
       ELSE LET minIndex == MinIndex(t, 2, 1)
            IN IF value > t[minIndex].score
               THEN SortOuter([t EXCEPT ![minIndex] = Entry(player, value)], 1)
               ELSE t

\* submitScore(score) sent by sender, on the storage c = [bestScore, top]
submitScore(c, sender, value) ==
    IF ~(value > 0)
    THEN [bestScore |-> c.bestScore, top |-> c.top, reverted |-> TRUE, emitted |-> FALSE]
    ELSE IF value <= c.bestScore[sender]
    THEN [bestScore |-> c.bestScore, top |-> c.top, reverted |-> FALSE, emitted |-> TRUE]
    ELSE [bestScore |-> [c.bestScore EXCEPT ![sender] = value],
          top |-> updateTop(c.top, sender, value),
          reverted |-> FALSE, emitted |-> TRUE]

\* getTopScores(): the players and the scores of top, in order
getTopScores(t) ==
    [players |-> [i \in 1..Len(t) |-> t[i].player],
     scores |-> [i \in 1..Len(t) |-> t[i].score]]

----------------------------------------------------------------------------
(* The second copy of the engine, src/main.js, translated from its own     *)
(* text.  Its state is one record; the DOM it writes is the overlay (the   *)
(* class hidden, the title and the subtitle) and the four HUD elements.    *)
(* A key event is given by the direction its key maps to.                  *)

main_GRID_SIZE == 20
main_TARGET_SCORE == 100
main_START_TIME == 90

main_FOOD_TYPES ==
    [normal |-> [value |-> 3], shield |-> [value |-> 8], fraud |-> [value |-> 10],
     jam |-> [value |-> 8], drain |-> [value |-> 6]]

main_L2S ==
    <<[name |-> "Arbitrum", key |-> "arbitrum", type |-> "fraud"],
      [name |-> "Optimism", key |-> "optimism", type |-> "jam"],
      [name |-> "Base", key |-> "base", type |-> "normal"],
      [name |-> "zkSync", key |-> "zksync", type |-> "shield"],
      [name |-> "Starknet", key |-> "starknet", type |-> "drain"],
      [name |-> "Linea", key |-> "linea", type |-> "normal"],
      [name |-> "Scroll", key |-> "scroll", type |-> "shield"]>>

main_POWERED_TYPES == {"shield", "fraud", "jam", "drain"}

\* the module-level declarations of main.js
main_Init ==
    [snake |-> <<>>,
     direction |-> [x |-> 1, y |-> 0],
     nextDirection |-> [x |-> 1, y |-> 0],
     speed |-> 140,
     moveTimerDelay |-> 0,
     foods |-> <<>>,
     score |-> 0,
     timeLeft |-> main_START_TIME,
     isPaused |-> FALSE,
     isGameOver |-> FALSE,
     reverseUntil |-> 0,
     stunUntil |-> 0,
     poweredEatTimes |-> <<>>,
     securityStatus |-> "Stable",
     lastL2 |-> NoL2,
     sceneRef |-> FALSE,
     hasStarted |-> FALSE,
     pendingStart |-> FALSE,
     overlay |-> [hidden |-> FALSE, title |-> "", subtitle |-> ""],
     els |-> [score |-> -1, time |-> -1, lastL2 |-> "none", security |-> "none"]]

\* showOverlay(title, subtitle)
main_showOverlay(m, title, subtitle) ==
    [m EXCEPT !.overlay = [hidden |-> FALSE, title |-> title, subtitle |-> subtitle]]

\* gameOver(reason)
main_gameOver(m, reason) ==
    main_showOverlay([m EXCEPT !.isGameOver = TRUE], "Game Over", reason)

\* winGame()
main_winGame(m) ==
    main_showOverlay([m EXCEPT !.isGameOver = TRUE], "Ethereum Wins",
                     "Target score reached before time ran out.")

\* updateHud()
main_updateHud(m, clock) ==
    LET danger == Cardinality({i \in 1..Len(m.poweredEatTimes) :
                                  clock - m.poweredEatTimes[i] < 15000})
        status == IF danger >= 2 THEN "Shaky" ELSE "Stable"
    IN [m EXCEPT !.securityStatus = status,
                 !.els = [score |-> m.score, time |-> m.timeLeft, lastL2 |-> m.lastL2,
                          security |-> status]]

\* adjustDifficulty()
main_adjustDifficulty(m) ==
    LET sp == IF m.score >= 70 THEN 90 ELSE IF m.score >= 40 THEN 110 ELSE 140
    IN [m EXCEPT !.speed = sp, !.moveTimerDelay = sp]

\* isOccupied(pos)
main_isOccupied(m, pos) ==
    \/ \E i \in 1..Len(m.snake) : m.snake[i].x = pos.x /\ m.snake[i].y = pos.y
    \/ \E i \in 1..Len(m.foods) : m.foods[i].x = pos.x /\ m.foods[i].y = pos.y

\* spawnFood(scene) for the outcome draw = [spot, tries, l2] of its random draws
main_spawnFood(m, draw) ==
    IF Len(m.foods) >= 5 THEN m
    ELSE IF ~m.sceneRef THEN m
    ELSE IF draw.tries >= 200 THEN m
    ELSE [m EXCEPT !.foods = Append(@, [x |-> draw.spot.x, y |-> draw.spot.y,
                                         name |-> main_L2S[draw.l2].name,
                                         type |-> main_L2S[draw.l2].type,
                                         key |-> main_L2S[draw.l2].key,
                                         verified |-> FALSE])]

\* verifyFraudProof(head)
main_verifyFraudProof(m, head) ==
    [m EXCEPT !.foods =
        [i \in 1..Len(m.foods) |->
            IF m.foods[i].type # "fraud" \/ m.foods[i].verified THEN m.foods[i]
            ELSE IF Abs(m.foods[i].x - head.x) + Abs(m.foods[i].y - head.y) = 1
            THEN [m.foods[i] EXCEPT !.verified = TRUE]
            ELSE m.foods[i]]]

\* resolveEat(scene, food)
main_resolveEat(m, food, clock) ==
    IF food.type = "fraud" /\ ~food.verified
    THEN main_gameOver(m, "A fraud-proof L2 was eaten before verification.")
    ELSE
    LET m1 == [m EXCEPT !.score = @ + main_FOOD_TYPES[food.type].value,
                        !.lastL2 = food.name]
        pushed == Append(m1.poweredEatTimes, clock)
        m2 == IF food.type \in main_POWERED_TYPES
              THEN [m1 EXCEPT !.poweredEatTimes =
                        SelectSeq(pushed, LAMBDA t : clock - t < 15000)]
              ELSE m1
    IN IF food.type \in main_POWERED_TYPES /\ Len(m2.poweredEatTimes) >= 3
       THEN main_gameOver(m2, "Security collapse: too many powered L2s in a short window.")
       ELSE
       LET m3 == IF food.type = "shield" THEN [m2 EXCEPT !.stunUntil = clock + 2000] ELSE m2
           m4 == IF food.type = "jam" THEN [m3 EXCEPT !.reverseUntil = clock + 3000] ELSE m3
           loss == IF 3 < Len(m4.snake) - 2 THEN 3 ELSE Len(m4.snake) - 2
           m5 == IF food.type = "drain" /\ loss > 0
                 THEN [m4 EXCEPT !.snake = SubSeq(@, 1, Len(@) - loss)]
                 ELSE m4
       IN IF m5.score >= main_TARGET_SCORE THEN main_winGame(m5)
          ELSE main_updateHud(main_adjustDifficulty(m5), clock)

\* step(scene) for one outcome of the spawn it may make
main_step(m, clock, draw) ==
    IF m.isPaused \/ m.isGameOver THEN m
    ELSE IF clock < m.stunUntil THEN m
    ELSE IF Len(m.snake) = 0 THEN m
    ELSE
    LET m0 == [m EXCEPT !.direction = m.nextDirection]
        newHead == [x |-> m.snake[1].x + m0.direction.x, y |-> m.snake[1].y + m0.direction.y]
    IN IF newHead.x < 0 \/ newHead.x >= main_GRID_SIZE
          \/ newHead.y < 0 \/ newHead.y >= main_GRID_SIZE
       THEN main_gameOver(m0, "Hit the wall.")
       ELSE IF \E k \in 1..Len(m.snake) : m.snake[k].x = newHead.x /\ m.snake[k].y = newHead.y
       THEN main_gameOver(m0, "Hit yourself.")
       ELSE
       LET m1 == [m0 EXCEPT !.snake = <<newHead>> \o @]
           hits == {i \in 1..Len(m1.foods) :
                       m1.foods[i].x = newHead.x /\ m1.foods[i].y = newHead.y}
       IN IF hits = {}
          THEN main_verifyFraudProof([m1 EXCEPT !.snake = SubSeq(@, 1, Len(@) - 1)], newHead)
          ELSE LET i == CHOOSE k \in hits : \A j \in hits : k <= j
                   r == main_resolveEat(m1, m1.foods[i], clock)
                   spliced == [r EXCEPT !.foods =
                                  SubSeq(@, 1, i - 1) \o SubSeq(@, i + 1, Len(@))]
               IN main_verifyFraudProof(main_spawnFood(spliced, draw), newHead)

\* tickTimer()
main_tickTimer(m, clock) ==
    IF m.isPaused \/ m.isGameOver THEN m
    ELSE LET m1 == [m EXCEPT !.timeLeft = @ - 1]
         IN IF m1.timeLeft <= 0 THEN main_gameOver(m1, "Time ran out.")
            ELSE main_updateHud(m1, clock)

\* handleInput testing the key against the queued direction
main_handleInput_AgainstQueued(m, desired, clock) ==
    LET reverse == clock < m.reverseUntil
        d == IF reverse THEN [x |-> -desired.x, y |-> -desired.y] ELSE desired
    IN IF d.x + m.nextDirection.x = 0 /\ d.y + m.nextDirection.y = 0 THEN m
       ELSE [m EXCEPT !.nextDirection = d]

\* handleInput(event) for a key that maps to the direction desired
main_handleInput(m, desired, clock) ==
    LET reverse == clock < m.reverseUntil
        d == IF reverse THEN [x |-> -desired.x, y |-> -desired.y] ELSE desired
    IN IF d.x + m.direction.x = 0 /\ d.y + m.direction.y = 0 THEN m
       ELSE [m EXCEPT !.nextDirection = d]

\* restartGame() for the outcomes d1..d4 of its four spawns
main_restartGame(m, clock, d1, d2, d3, d4) ==
    LET m1 == [m EXCEPT !.overlay.hidden = TRUE,
                        !.snake = <<[x |-> 8, y |-> 10], [x |-> 7, y |-> 10],
                                    [x |-> 6, y |-> 10]>>,
                        !.direction = [x |-> 1, y |-> 0],
                        !.nextDirection = [x |-> 1, y |-> 0],
                        !.foods = <<>>,
                        !.score = 0,
                        !.timeLeft = main_START_TIME,
                        !.speed = 140,
                        !.isPaused = FALSE,
                        !.isGameOver = FALSE,
                        !.reverseUntil = 0,
                        !.stunUntil = 0,
                        !.poweredEatTimes = <<>>,
                        !.securityStatus = "Stable",
                        !.lastL2 = NoL2]
    IN main_spawnFood(main_spawnFood(main_spawnFood(main_spawnFood(
           main_updateHud(m1, clock), d1), d2), d3), d4)

\* create(): the timers run; the game waits, paused, for the first start
main_create(m, clock, d1, d2, d3, d4) ==
    LET m1 == [m EXCEPT !.sceneRef = TRUE, !.moveTimerDelay = m.speed]
    IN IF m1.pendingStart
       THEN main_restartGame([m1 EXCEPT !.pendingStart = FALSE], clock, d1, d2, d3, d4)
       ELSE IF ~m1.hasStarted
       THEN [m1 EXCEPT !.isPaused = TRUE, !.isGameOver = FALSE, !.snake = <<>>,
                       !.overlay.hidden = FALSE]
       ELSE m1

----------------------------------------------------------------------------
(* State machine *)

Init ==
    /\ sceneRef = FALSE
    /\ snake = <<>>
    /\ direction = Right
    /\ nextDirection = Right
    /\ speed = INITIAL_SPEED
    /\ moveTimerDelay = 0
    /\ foods = <<>>
    /\ score = 0
    /\ timeLeft = START_TIME
    /\ isPaused = FALSE
    /\ isGameOver = FALSE
    /\ reverseUntil = 0
    /\ stunUntil = 0
    /\ poweredEatTimes = <<>>
    /\ lastL2 = NoL2
    /\ now = 0
    /\ hud = NoHud
    /\ over = <<>>
    /\ eatLog = <<>>
    /\ runs = 0
    /\ moves = 0
    /\ ticks = 0
    /\ usersCollection = {}
    /\ projectsCollection = {}
    /\ kudosCollection = <<>>
    /\ res = NoRequest
    /\ bestScore = [p \in Players |-> 0]
    /\ top = <<>>
    /\ receipt = NoCall
    /\ main = main_Init

\* create(): the scene exists, moveTimer runs with delay speed, the 1 s timer runs
Create ==
    /\ ~sceneRef
    /\ sceneRef' = TRUE
    /\ moveTimerDelay' = speed
    /\ UNCHANGED <<snake, direction, nextDirection, speed, foods, score, timeLeft, isPaused,
                   isGameOver, reverseUntil, stunUntil, poweredEatTimes, lastL2, now, hud,
                   over, eatLog, runs, moves, ticks>>
    /\ UNCHANGED <<serverVars, chainVars, main>>

\* start(): returns at once while there is no scene
Start(env) ==
    IF ~sceneRef THEN UNCHANGED vars
    ELSE /\ runs < env.maxRuns
         /\ \E d1 \in Draws(Reset(Game), env) :
            \E d2 \in Draws(spawnFood(Reset(Game), d1), env) :
            \E d3 \in Draws(spawnFood(spawnFood(Reset(Game), d1), d2), env) :
            \E d4 \in Draws(spawnFood(spawnFood(spawnFood(Reset(Game), d1), d2), d3), env) :
                Becomes(start(Game, d1, d2, d3, d4))
         /\ runs' = runs + 1
         /\ moves' = 0
         /\ ticks' = 0
         /\ UNCHANGED <<sceneRef, now>>
         /\ UNCHANGED <<serverVars, chainVars, main>>

Pause ==
    /\ Becomes(pause(Game))
    /\ UNCHANGED <<sceneRef, now, runs, moves, ticks>>
    /\ UNCHANGED <<serverVars, chainVars, main>>

Resume ==
    /\ Becomes(resume(Game))
    /\ UNCHANGED <<sceneRef, now, runs, moves, ticks>>
    /\ UNCHANGED <<serverVars, chainVars, main>>

\* the P key
TogglePause ==
    /\ sceneRef
    /\ Becomes(togglePause(Game))
    /\ UNCHANGED <<sceneRef, now, runs, moves, ticks>>
    /\ UNCHANGED <<serverVars, chainVars, main>>

\* setDirection(d), also reached from the keyboard handler
SetDirection(env) ==
    \E d \in env.dirs :
        /\ Becomes(applyDirection(Game, d, now))
        /\ UNCHANGED <<sceneRef, now, runs, moves, ticks>>
        /\ UNCHANGED <<serverVars, chainVars, main>>

\* the movement timer fires: step(scene)
Step(env) ==
    /\ sceneRef
    /\ StepSuspended(Game, now) \/ moves < env.maxMoves
    /\ \E d \in StepDraws(Game, now, env) : Becomes(step(Game, now, d))
    /\ moves' = IF StepSuspended(Game, now) THEN moves ELSE moves + 1
    /\ UNCHANGED <<sceneRef, now, runs, ticks>>
    /\ UNCHANGED <<serverVars, chainVars, main>>

\* the 1 s timer fires: tickTimer()
TickTimer(env) ==
    /\ sceneRef
    /\ isPaused \/ isGameOver \/ timeLeft > START_TIME - env.maxTicks
    /\ Becomes(tickTimer(Game))
    /\ ticks' = IF isPaused \/ isGameOver THEN ticks ELSE ticks + 1
    /\ UNCHANGED <<sceneRef, now, runs, moves>>
    /\ UNCHANGED <<serverVars, chainVars, main>>

\* time passes between two callbacks
ClockAdvance(env) ==
    \E d \in env.advances :
        /\ now + d <= env.maxNow
        /\ now' = now + d
        /\ UNCHANGED <<sceneRef, snake, direction, nextDirection, speed, moveTimerDelay, foods,
                       score, timeLeft, isPaused, isGameOver, reverseUntil, stunUntil,
                       poweredEatTimes, lastL2, hud, over, eatLog, runs, moves, ticks>>
        /\ UNCHANGED <<serverVars, chainVars, main>>

\* the exploration never runs out of cells to offer a spawn
DrawsLeft(env) == (sceneRef /\ ~StepSuspended(Game, now)) => StepDraws(Game, now, env) # {}

NextIn(env) ==
    \/ Create
    \/ Start(env)
    \/ Pause
    \/ Resume
    \/ TogglePause
    \/ SetDirection(env)
    \/ Step(env)
    \/ TickTimer(env)
    \/ ClockAdvance(env)

----------------------------------------------------------------------------
(* The wall API as a state machine: one action per route, the request      *)
(* drawn from small sets.                                                  *)

MaxKudos == 2
MaxBoosts == 1

RepoNames == {"wall", "docs"}

BaseReq ==
    [route |-> "", token |-> NoToken, owner |-> "acme", repo |-> "wall", gh |-> GitHubFails,
     name |-> <<>>, message |-> <<>>, kudosId |-> 0, theme |-> "", contributors |-> 0,
     profile |-> GitHubFails]

\* the handler's result is committed and the response sent
Respond(req, out) ==
    /\ usersCollection' = out.db.users
    /\ projectsCollection' = out.db.projects
    /\ kudosCollection' = out.db.kudos
    /\ res' = [route |-> req.route, token |-> req.token, owner |-> req.owner,
               repo |-> req.repo, gh |-> req.gh, status |-> out.status]
    /\ UNCHANGED <<gameVars, chainVars, main>>

\* GET /auth/github/callback: only ann ever signs in, bob's token is a
\* token for a user the database does not know
AuthCallback ==
    \E pr \in {"unconfigured", GitHubFails, "ann"} :
        LET req == [BaseReq EXCEPT !.route = "GET /auth/github/callback", !.profile = pr]
        IN Respond(req, authCallback(DB, req))

GetRoute ==
    \E rt \in ReadRoutes, tok \in {NoToken, "ann"} :
        LET req == [BaseReq EXCEPT !.route = rt, !.token = tok,
                                   !.gh = IF tok = NoToken THEN GitHubFails ELSE "read"]
        IN Respond(req, getRoute(DB, req))

PostProjectFromGithub ==
    \E tok \in {NoToken, "ann"}, rp \in RepoNames \cup {""}, gh \in {"admin", "read"},
       n \in {-1, 0, 1} :
        LET req == [BaseReq EXCEPT !.route = "POST /projects/from-github", !.token = tok,
                                   !.repo = rp, !.gh = gh, !.contributors = n]
        IN /\ Len(kudosCollection) + n <= MaxKudos
           /\ Respond(req, postProjectFromGithub(DB, req))

PatchSettings ==
    \E tok \in {NoToken, "ann"}, rp \in {"wall"}, gh \in {"write", "read"},
       th \in {"", "midnight"} :
        LET req == [BaseReq EXCEPT !.route = "PATCH settings", !.token = tok,
                                   !.repo = rp, !.gh = gh, !.theme = th]
        IN Respond(req, patchSettings(DB, req))

PostFeatured ==
    \E tok \in {NoToken, "ann"}, rp \in {"wall"}, gh \in {"write", "read"}, k \in {0, 1} :
        LET req == [BaseReq EXCEPT !.route = "POST featured", !.token = tok,
                                   !.repo = rp, !.gh = gh, !.kudosId = k]
        IN Respond(req, postFeatured(DB, req))

DeleteFeatured ==
    \E tok \in {NoToken, "ann"}, rp \in {"wall"}, gh \in {"write", "read"} :
        LET req == [BaseReq EXCEPT !.route = "DELETE featured", !.token = tok,
                                   !.repo = rp, !.gh = gh, !.kudosId = 1]
        IN Respond(req, deleteFeatured(DB, req))

PostKudos ==
    \E tok \in Tokens, rp \in RepoNames, gh \in Permissions,
       body \in {<<<<"A">>, <<"t">>>>, <<<<>>, <<"t">>>>, <<<<"A">>, <<>>>>} :
        LET req == [BaseReq EXCEPT !.route = "POST kudos", !.token = tok, !.repo = rp,
                                   !.gh = gh, !.name = body[1], !.message = body[2]]
        IN /\ Len(kudosCollection) < MaxKudos
           /\ Respond(req, postKudos(DB, req))

PostBoost ==
    \E tok \in {NoToken, "ann"}, rp \in RepoNames, k \in 1..(MaxKudos + 1) :
        LET req == [BaseReq EXCEPT !.route = "POST boost", !.token = tok, !.repo = rp,
                                   !.kudosId = k]
        IN /\ \A i \in 1..Len(kudosCollection) : kudosCollection[i].boosts < MaxBoosts
           /\ Respond(req, postBoost(DB, req))

NextServer ==
    \/ AuthCallback
    \/ GetRoute
    \/ PostProjectFromGithub
    \/ PatchSettings
    \/ PostFeatured
    \/ DeleteFeatured
    \/ PostKudos
    \/ PostBoost

SpecServer == Init /\ [][NextServer]_vars

----------------------------------------------------------------------------
(* The Leaderboard contract as a state machine *)

\* The senders explored: the crowd, all players but the last three, submit
\* once each, in the order of their addresses, the score 2; the last three
\* players submit any score, any number of times, once all of the crowd but
\* at most one have submitted.
Crowd == 1..(MaxPlayers - 3)

Submits(p, s) ==
    IF p \in Crowd
    THEN /\ s = 2
         /\ bestScore[p] = 0
         /\ \A q \in Crowd : q < p => bestScore[q] > 0
    ELSE \A q \in Crowd : q + 1 \in Crowd => bestScore[q] > 0

SubmitScore ==
    \E p \in Players, s \in 0..MaxScore :
        /\ Submits(p, s)
        /\ LET out == submitScore([bestScore |-> bestScore, top |-> top], p, s)
           IN /\ bestScore' = out.bestScore
              /\ top' = out.top
              /\ receipt' = [sender |-> p, score |-> s,
                             reverted |-> out.reverted, emitted |-> out.emitted]
        /\ UNCHANGED <<gameVars, serverVars, main>>

NextChain == SubmitScore

SpecChain == Init /\ [][NextChain]_vars

----------------------------------------------------------------------------
(* The two copies of the engine side by side: every callback is delivered  *)
(* to both, with the same clock reading and the same outcome of the random *)
(* draws.                                                                  *)

TwinCreate ==
    /\ ~sceneRef
    /\ sceneRef' = TRUE
    /\ moveTimerDelay' = speed
    /\ main' = main_create(main, now, NoDraw, NoDraw, NoDraw, NoDraw)
    /\ UNCHANGED <<snake, direction, nextDirection, speed, foods, score, timeLeft, isPaused,
                   isGameOver, reverseUntil, stunUntil, poweredEatTimes, lastL2, now, hud,
                   over, eatLog, runs, moves, ticks>>
    /\ UNCHANGED <<serverVars, chainVars>>

\* start() and restartGame(), the scene created
TwinStart(env) ==
    /\ sceneRef
    /\ runs < env.maxRuns
    /\ \E d1 \in Draws(Reset(Game), env) :
       \E d2 \in Draws(spawnFood(Reset(Game), d1), env) :
       \E d3 \in Draws(spawnFood(spawnFood(Reset(Game), d1), d2), env) :
       \E d4 \in Draws(spawnFood(spawnFood(spawnFood(Reset(Game), d1), d2), d3), env) :
           /\ Becomes(start(Game, d1, d2, d3, d4))
           /\ main' = main_restartGame(main, now, d1, d2, d3, d4)
    /\ runs' = runs + 1
    /\ moves' = 0
    /\ ticks' = 0
    /\ UNCHANGED <<sceneRef, now>>
    /\ UNCHANGED <<serverVars, chainVars>>

\* a direction key
TwinDirection(env) ==
    \E d \in env.dirs :
        /\ Becomes(applyDirection(Game, d, now))
        /\ main' = main_handleInput(main, d, now)
        /\ UNCHANGED <<sceneRef, now, runs, moves, ticks>>
        /\ UNCHANGED <<serverVars, chainVars>>

\* both movement timers fire
TwinStep(env) ==
    /\ sceneRef
    /\ StepSuspended(Game, now) \/ moves < env.maxMoves
    /\ \E d \in StepDraws(Game, now, env) :
          /\ Becomes(step(Game, now, d))
          /\ main' = main_step(main, now, d)
    /\ moves' = IF StepSuspended(Game, now) THEN moves ELSE moves + 1
    /\ UNCHANGED <<sceneRef, now, runs, ticks>>
    /\ UNCHANGED <<serverVars, chainVars>>

\* both 1 s timers fire
TwinTick(env) ==
    /\ sceneRef
    /\ isPaused \/ isGameOver \/ timeLeft > START_TIME - env.maxTicks
    /\ Becomes(tickTimer(Game))
    /\ main' = main_tickTimer(main, now)
    /\ ticks' = IF isPaused \/ isGameOver THEN ticks ELSE ticks + 1
    /\ UNCHANGED <<sceneRef, now, runs, moves>>
    /\ UNCHANGED <<serverVars, chainVars>>

TwinIn(env) ==
    \/ TwinCreate
    \/ TwinStart(env)
    \/ TwinDirection(env)
    \/ TwinStep(env)
    \/ TwinTick(env)
    \/ ClockAdvance(env)

----------------------------------------------------------------------------
(* Specifications *)

MaxMoves == 3
MaxTicks == 1
MaxRuns == 1
MaxNow == 3000

RowAhead == [i \in 1..11 |-> Cell(8 + i, 10)]

Fraud == 1
Jam == 2
Normal == 3
Shield == 4
Drain == 5

\* the general exploration: every L2, every direction, short runs
EnvMain ==
    [track |-> RowAhead,
     menu |-> [i \in 1..11 |->
                 IF i = 1 THEN 1..7
                 ELSE IF i = 2 THEN {Fraud, Drain, Normal}
                 ELSE IF i = 3 THEN {Fraud, Drain}
                 ELSE {Normal}],
     tries |-> {1, MAX_TRIES},
     dirs |-> Directions, advances |-> {3000}, maxNow |-> MaxNow,
     maxMoves |-> MaxMoves, maxTicks |-> MaxTicks, maxRuns |-> MaxRuns]

Next == NextIn(EnvMain)

Spec == Init /\ [][Next]_vars

MaxMovesDeep == 12
MaxRunsDeep == 2
MaxNowDeep == 75000

\* the row ahead from x = 10, then cells of the top row, far from the snake
RowFrom10 == [i \in 1..16 |-> IF i <= 10 THEN Cell(9 + i, 10) ELSE Cell(i - 11, 0)]

\* long runs straight along the row: up to ten items eaten, mostly fraud
\* items, the clock moving by whole 15 s windows, a restart after the run
EnvDeep ==
    [track |-> RowFrom10,
     menu |-> [i \in 1..16 |->
                 IF i \in {1, 2} THEN {Fraud, Drain, Shield}
                 ELSE IF i <= 10 THEN {Fraud}
                 ELSE {Normal}],
     tries |-> {1},
     dirs |-> {Right}, advances |-> {POWERED_WINDOW}, maxNow |-> MaxNowDeep,
     maxMoves |-> MaxMovesDeep, maxTicks |-> MaxTicks, maxRuns |-> MaxRunsDeep]

NextDeep == NextIn(EnvDeep)

SpecDeep == Init /\ [][NextDeep]_vars

MaxMovesWindow == 5
MaxNowWindow == 20000

\* powered items of every kind eaten one after the other, the clock moving
\* in steps of 5 s and 10 s around the 15 s window
EnvWindow ==
    [track |-> RowAhead,
     menu |-> [i \in 1..11 |->
                 IF i = 1 THEN {Drain, Jam, Normal}
                 ELSE IF i = 2 THEN {Fraud, Shield}
                 ELSE IF i = 3 THEN {Fraud, Drain, Shield, Jam}
                 ELSE IF i = 4 THEN {Fraud, Normal}
                 ELSE {Fraud}],
     tries |-> {1},
     dirs |-> {Right}, advances |-> {5000, 10000}, maxNow |-> MaxNowWindow,
     maxMoves |-> MaxMovesWindow, maxTicks |-> MaxTicks, maxRuns |-> MaxRuns]

NextWindow == NextIn(EnvWindow)

SpecWindow == Init /\ [][NextWindow]_vars

MaxTicksTimer == 90
MaxMovesTimer == 2
MaxRunsTimer == 2

\* the whole countdown: ninety 1 s ticks, a short run, a restart
EnvTimer ==
    [track |-> RowAhead,
     menu |-> [i \in 1..11 |-> IF i = 1 THEN {Normal, Drain} ELSE {Normal}],
     tries |-> {1},
     dirs |-> {Right, Down}, advances |-> {3000}, maxNow |-> MaxNow,
     maxMoves |-> MaxMovesTimer, maxTicks |-> MaxTicksTimer, maxRuns |-> MaxRunsTimer]

NextTimer == NextIn(EnvTimer)

SpecTimer == Init /\ [][NextTimer]_vars

MaxMovesWalk == 10

\* the run starts heading right; walks that turn down, left and up, long
\* enough to reach the left and the bottom wall and to close a loop onto the
\* snake's own body
\* the row ahead, then the top row
RowThenTop == [i \in 1..22 |-> IF i <= 11 THEN Cell(8 + i, 10) ELSE Cell(i - 12, 0)]

EnvWalk ==
    [track |-> RowThenTop,
     menu |-> [i \in 1..22 |-> IF i = 1 THEN {Normal, Drain} ELSE {Normal}],
     tries |-> {1},
     dirs |-> {Down, Left, Up}, advances |-> {3000}, maxNow |-> MaxNow,
     maxMoves |-> MaxMovesWalk, maxTicks |-> MaxTicks, maxRuns |-> MaxRuns]

NextWalk == NextIn(EnvWalk)

SpecWalk == Init /\ [][NextWalk]_vars

\* a shield eaten and the clock moving in steps of 1 s through the 2 s stun
EnvStun ==
    [track |-> RowAhead,
     menu |-> [i \in 1..11 |->
                 IF i = 1 THEN {Shield, Normal}
                 ELSE IF i = 2 THEN {Shield, Fraud, Normal}
                 ELSE {Normal}],
     tries |-> {1},
     dirs |-> {Right, Up, Down}, advances |-> {1000}, maxNow |-> MaxNow,
     maxMoves |-> MaxMoves, maxTicks |-> MaxTicks + 1, maxRuns |-> MaxRuns]

NextStun == NextIn(EnvStun)

SpecStun == Init /\ [][NextStun]_vars

MaxMovesTwin == 4

\* every kind of item on the first cells, every direction, the jam and the
\* stun running out when the clock moves
EnvTwin ==
    [track |-> RowAhead,
     menu |-> [i \in 1..11 |->
                 IF i = 1 THEN 1..7
                 ELSE IF i = 2 THEN {Fraud, Drain, Normal}
                 ELSE IF i = 3 THEN {Fraud, Drain}
                 ELSE {Normal}],
     tries |-> {1, MAX_TRIES},
     dirs |-> Directions, advances |-> {3000}, maxNow |-> MaxNow,
     maxMoves |-> MaxMovesTwin, maxTicks |-> MaxTicks, maxRuns |-> MaxRuns]

NextTwin == TwinIn(EnvTwin)

SpecTwin == Init /\ [][NextTwin]_vars

\* the long runs of EnvDeep (win, wall, restart), the countdown of EnvTimer
\* and the walks of EnvWalk (wall, own body), for both copies
NextTwinDeep == TwinIn(EnvDeep)
SpecTwinDeep == Init /\ [][NextTwinDeep]_vars
NextTwinTimer == TwinIn(EnvTimer)
SpecTwinTimer == Init /\ [][NextTwinTimer]_vars
NextTwinWalk == TwinIn(EnvWalk)
SpecTwinWalk == Init /\ [][NextTwinWalk]_vars

\* the 1 s timer fires on a run that is neither paused nor ended
LiveTick == TickTimer(EnvTimer) /\ ticks' = ticks + 1

\* a paused run is resumed
Unpause == isPaused /\ Resume

\* the countdown with its scheduling: the looping 1 s timer keeps firing
\* while the run is not paused, and a paused run is resumed at some time
SpecLive == Init /\ [][NextTimer]_vars /\ SF_vars(LiveTick) /\ WF_vars(Unpause)

DrawsLeftMain == DrawsLeft(EnvMain)
DrawsLeftDeep == DrawsLeft(EnvDeep)
DrawsLeftWindow == DrawsLeft(EnvWindow)
DrawsLeftTimer == DrawsLeft(EnvTimer)
DrawsLeftWalk == DrawsLeft(EnvWalk)
DrawsLeftStun == DrawsLeft(EnvStun)
DrawsLeftTwin == DrawsLeft(EnvTwin)

----------------------------------------------------------------------------
(* Vocabulary of the properties *)

Neg(d) == [x |-> -d.x, y |-> -d.y]

\* the cell the next effective movement tick moves the head to
NextHead == Cell(snake[1].x + nextDirection.x, snake[1].y + nextDirection.y)

\* a movement tick delivered now would get past the guards of step
TickEffective == sceneRef /\ ~StepSuspended(Game, now)

\* a movement tick delivered now would move the head onto food item i
WouldEat(i) ==
    /\ TickEffective
    /\ ~OutOfGrid(NextHead)
    /\ ~HitsSnake(snake, NextHead)
    /\ i \in 1..Len(foods)
    /\ SameCell(foods[i], NextHead)

\* this step is a movement tick that got past the guards of step
IsMoveTick == moves' = moves + 1

\* this step is an effective start()
IsStart == runs' = runs + 1

LastEat == eatLog[Len(eatLog)]

GameOverWith(reason, sc) == <<[cb |-> "onGameOver", reason |-> reason, score |-> sc]>>
WinWith(sc) == <<[cb |-> "onWin", reason |-> NoReason, score |-> sc]>>

Collapsed == over # <<>> /\ over[1].reason = Collapse

----------------------------------------------------------------------------
(* C1: in every state of a run created by start() the snake has at least   *)
(* 2 segments; a drain never leaves it shorter than 2.                     *)

C1_SnakeAtLeastTwo == runs > 0 => Len(snake) >= MIN_SNAKE

\* a drain was eaten by a snake that had grown to 4 segments and cut it to 2
C1_Witness ==
    /\ Len(eatLog) >= 2
    /\ eatLog[Len(eatLog) - 1].type # "drain"
    /\ LastEat.type = "drain"
    /\ Len(snake) = 2

----------------------------------------------------------------------------
(* C2: a movement tick that moves the head onto an unverified fraud item   *)
(* ends the run in that tick with the fraud reason; the 10 points are not  *)
(* added and the reported final score is the score before the eat.         *)

C2_UnverifiedFraudFatal ==
    [][\A i \in 1..Len(foods) :
          (IsMoveTick /\ WouldEat(i) /\ foods[i].type = "fraud" /\ ~foods[i].verified)
          => /\ isGameOver'
             /\ over' = GameOverWith(FraudEaten, score)
             /\ score' = score
             /\ eatLog' = eatLog]_vars

C2_Witness == isGameOver /\ over = GameOverWith(FraudEaten, 0) /\ Len(snake) = 4

----------------------------------------------------------------------------
(* C3: a movement tick that leaves the head at Manhattan distance 1 from   *)
(* a fraud item leaves that item verified; eating a verified fraud item    *)
(* adds exactly 10 to score.                                               *)

\* after a tick that moved the head, every fraud item next to the head is verified
VerifiedNextToHead ==
    (IsMoveTick /\ snake'[1] # snake[1])
    => \A j \in 1..Len(foods') :
          (foods'[j].type = "fraud" /\ Manhattan(foods'[j], snake'[1]) = 1)
          => foods'[j].verified

\* the claim as stated: eating the verified item never terminates the run
C3_Original ==
    [][/\ VerifiedNextToHead
       /\ \A i \in 1..Len(foods) :
            (IsMoveTick /\ WouldEat(i) /\ foods[i].type = "fraud" /\ foods[i].verified)
            => (~isGameOver' /\ score' = score + 10)]_vars

\* as amended: the eat adds 10 and never ends the run for the fraud reason;
\* the run ends in that tick exactly when the eat is the third powered eat of
\* the 15 s window (a loss) or, failing that, brings score to 100 (a win)
C3_VerifiedFraudScores ==
    [][/\ VerifiedNextToHead
       /\ \A i \in 1..Len(foods) :
            (IsMoveTick /\ WouldEat(i) /\ foods[i].type = "fraud" /\ foods[i].verified)
            => /\ score' = score + 10
               /\ LET recent == Cardinality({k \in 1..Len(eatLog) :
                                    /\ eatLog[k].type \in POWERED_TYPES
                                    /\ now - eatLog[k].at < POWERED_WINDOW})
                  IN IF recent + 1 >= COLLAPSE_COUNT
                     THEN over' = GameOverWith(Collapse, score + 10)
                     ELSE IF score + 10 >= TARGET_SCORE
                     THEN over' = WinWith(score + 10)
                     ELSE ~isGameOver' /\ over' = <<>>]_vars

\* a fraud item verified on an earlier tick has been eaten and the run goes on
C3_Witness == eatLog # <<>> /\ LastEat.type = "fraud" /\ ~isGameOver /\ score >= 10

----------------------------------------------------------------------------
(* C4: the run ends by security collapse exactly when a powered item is    *)
(* eaten and, counting it, at least 3 powered items were eaten at clock    *)
(* readings less than 15000 ms before that eat.                            *)

PoweredEat(k) == eatLog[k].type \in POWERED_TYPES

\* the powered eats up to the k-th eat that lie less than 15 s before it, itself included
WindowCount(k) ==
    Cardinality({j \in 1..k :
        PoweredEat(j) /\ eatLog[k].at - eatLog[j].at < POWERED_WINDOW})

C4_CollapseExactlyAtThree ==
    /\ \A k \in 1..Len(eatLog) :
          (PoweredEat(k) /\ WindowCount(k) >= COLLAPSE_COUNT)
          => (k = Len(eatLog) /\ over = GameOverWith(Collapse, score))
    /\ Collapsed
          => (eatLog # <<>> /\ PoweredEat(Len(eatLog))
              /\ WindowCount(Len(eatLog)) >= COLLAPSE_COUNT)

\* two powered eats, at least 15 s without one, a third powered eat: the run goes on
C4_Witness ==
    /\ ~isGameOver
    /\ \E i, j, k \in 1..Len(eatLog) :
          /\ i < j /\ j < k
          /\ PoweredEat(i) /\ PoweredEat(j) /\ PoweredEat(k)
          /\ eatLog[j].at - eatLog[i].at < POWERED_WINDOW
          /\ eatLog[k].at - eatLog[i].at = POWERED_WINDOW

\* the third powered eat of a window has ended the run
C4_WitnessCollapse ==
    /\ Collapsed
    /\ eatLog[Len(eatLog)].at - eatLog[1].at = 10000

----------------------------------------------------------------------------
(* C5: an eat that brings score to 100 or more ends the run as a win, the  *)
(* win callback carrying the final score, and afterwards no tick changes   *)
(* the run state.                                                          *)

\* the claim as stated: every eat that reaches the target is a win
C5_Original == score >= TARGET_SCORE => over = WinWith(score)

\* what ends a run whose score has reached the target
TargetReached ==
    score >= TARGET_SCORE
    => over = (IF PoweredEat(Len(eatLog)) /\ WindowCount(Len(eatLog)) >= COLLAPSE_COUNT
               THEN GameOverWith(Collapse, score)
               ELSE WinWith(score))

\* as amended: the eat is a win unless it is the collapsing eat, which is a
\* loss with the same final score; once the run is won nothing but start()
\* changes snake, food, score or timeRemaining
C5_WinUnlessCollapse ==
    [][/\ TargetReached'
       /\ (over = WinWith(score) /\ ~IsStart)
          => (snake' = snake /\ foods' = foods /\ score' = score /\ timeLeft' = timeLeft
              /\ over' = over /\ isGameOver')]_vars

\* the run was won and the clock has moved on since
C5_Witness ==
    /\ over = WinWith(score)
    /\ score >= TARGET_SCORE
    /\ now > LastEat.at

----------------------------------------------------------------------------
(* C6: after start() every run-state field has its initial value, the four *)
(* spawned items are the food set, and the movement timer runs at 140 ms.  *)

C6_StartResets ==
    [][IsStart
       => /\ snake' = InitialSnake
          /\ direction' = Right /\ nextDirection' = Right
          /\ score' = 0 /\ timeLeft' = START_TIME
          /\ ~isPaused' /\ ~isGameOver'
          /\ stunUntil' = 0 /\ reverseUntil' = 0
          /\ poweredEatTimes' = <<>>
          /\ Len(foods') = INITIAL_FOODS
          /\ \A i \in 1..Len(foods') : ~foods'[i].verified
          /\ speed' = INITIAL_SPEED
          /\ moveTimerDelay' = INITIAL_SPEED]_vars

----------------------------------------------------------------------------
(* C7: the 90th 1 s tick of a run that is neither paused nor ended ends it *)
(* with "Time ran out." at timeRemaining 0; timeRemaining stays in 0..90   *)
(* and does not change once the run has ended.                             *)

Countdown ==
    /\ timeLeft \in 0..START_TIME
    /\ timeLeft = START_TIME - ticks
    /\ ticks = START_TIME <=> over = GameOverWith(TimeOut, score)
    /\ ticks = START_TIME => isGameOver

C7_TimeExpiry ==
    [][/\ Countdown'
       /\ (isGameOver /\ ~IsStart) => timeLeft' = timeLeft]_vars

\* a started run has been ended by its 90th tick
C7_Witness ==
    /\ runs > 0
    /\ ticks = START_TIME
    /\ timeLeft = 0
    /\ over = GameOverWith(TimeOut, score)

----------------------------------------------------------------------------
(* C8: with no jam active, setDirection of the exact inverse of            *)
(* currentDirection changes nothing, whatever pendingDirection is.         *)

C8_ReversalGuard ==
    \A d \in Directions :
        (now >= reverseUntil /\ d = Neg(direction))
        => applyDirection(Game, d, now) = Game

\* an input was accepted since the last tick: pending differs from current
C8_Witness ==
    /\ runs > 0 /\ moves > 0
    /\ now >= reverseUntil
    /\ direction = Up
    /\ nextDirection = Left

----------------------------------------------------------------------------
(* C9: from a jam eat at clock reading t until the clock reaches t + 3000  *)
(* every input is negated before the reversal guard; from t + 3000 on      *)
(* inputs are applied as entered.                                          *)

\* the jam eats of the run whose effect was applied (a jam eat that was the
\* collapsing one has none)
JamEats ==
    {k \in 1..Len(eatLog) :
        eatLog[k].type = "jam" /\ ~(k = Len(eatLog) /\ Collapsed)}

\* the end of the latest jam window, from the history of eats
JamEnd ==
    IF JamEats = {} THEN 0
    ELSE eatLog[CHOOSE k \in JamEats : \A j \in JamEats : j <= k].at + REVERSE_MS

C9_JamNegatesInput ==
    /\ reverseUntil = JamEnd
    /\ \A d \in Directions :
          LET used == IF now < JamEnd THEN Neg(d) ELSE d
              expected == IF used = Neg(direction) THEN nextDirection ELSE used
          IN applyDirection(Game, d, now) = [Game EXCEPT !.nextDirection = expected]

\* the jam window has just closed: the clock stands exactly at t + 3000
C9_Witness ==
    /\ JamEats # {}
    /\ ~isGameOver
    /\ now = JamEnd
    /\ direction = Right

\* inside the jam window an input was accepted
C9_WitnessInside ==
    /\ JamEats # {}
    /\ now < JamEnd
    /\ nextDirection # direction

----------------------------------------------------------------------------
(* C10: at most 5 food items, on pairwise distinct cells, none on a cell   *)
(* of the snake; a spawn adds an item only on a free cell and a skipped    *)
(* spawn changes nothing.                                                  *)

FoodsApart ==
    /\ Len(foods) <= MAX_FOODS
    /\ \A i, j \in 1..Len(foods) : i # j => ~SameCell(foods[i], foods[j])
    /\ \A i \in 1..Len(foods) : \A k \in 1..Len(snake) : ~SameCell(foods[i], snake[k])

\* the cells probed as last draw of a spawn: the snake's, the items', the track's start
ProbeCells ==
    Range(snake) \cup {Cell(foods[i].x, foods[i].y) : i \in 1..Len(foods)}
                 \cup {RowAhead[i] : i \in 1..5}

\* spawnFood in the current state, for every outcome of its draws
SpawnRespectsCells ==
    \A c \in ProbeCells : \A n \in {1, MAX_TRIES} :
        LET d == [spot |-> c, tries |-> n, l2 |-> Fraud]
            r == spawnFood(Game, d)
        IN LoopOutcome(Game, d)
           => IF n >= MAX_TRIES THEN r = Game
              ELSE /\ ~HitsSnake(snake, c)
                   /\ \A i \in 1..Len(foods) : ~SameCell(foods[i], c)
                   /\ r = [Game EXCEPT !.foods = Append(foods,
                              [x |-> c.x, y |-> c.y, name |-> L2S[Fraud].name,
                               type |-> L2S[Fraud].type, verified |-> FALSE])]

C10_FoodPlacement == FoodsApart /\ SpawnRespectsCells

\* an eat was followed by a skipped spawn: three items are left
C10_Witness == runs > 0 /\ Len(eatLog) >= 1 /\ Len(foods) = 3 /\ Len(snake) >= 4

----------------------------------------------------------------------------
(* C11: a run that ends fires exactly one terminal callback, once: onWin   *)
(* with the final score, or onGameOver with one of the five loss reasons   *)
(* and the final score; no later tick fires a second one; the callback is  *)
(* fired by the tick that met the wall, the snake, an unverified fraud     *)
(* item, the end of the time, the collapse or the target score.            *)

LossReasons == {HitWall, HitSelf, FraudEaten, Collapse, TimeOut}

\* none while the run is live, exactly one once it has ended, carrying score
TerminalShape ==
    /\ Len(over) <= 1
    /\ isGameOver <=> Len(over) = 1
    /\ over # <<>> =>
          /\ over[1].score = score
          /\ \/ over[1].cb = "onWin" /\ over[1].reason = NoReason
             \/ over[1].cb = "onGameOver" /\ over[1].reason \in LossReasons

\* a movement tick is about to move the head onto a food item that satisfies P
EatsItem(P(_)) ==
    \E i \in 1..Len(foods) :
        /\ foods[i].x = NextHead.x /\ foods[i].y = NextHead.y
        /\ P(foods[i])

\* a callback is fired only on a run that has not ended, by the tick that met its cause
TerminalCause ==
    (over' # over /\ ~IsStart)
    => /\ over = <<>>
       /\ ~isGameOver
       /\ LET t == over'[1]
          IN CASE t.cb = "onWin" ->
                    IsMoveTick /\ score < TARGET_SCORE /\ score' >= TARGET_SCORE
               [] t.cb # "onWin" /\ t.reason = HitWall ->
                    IsMoveTick /\ (NextHead.x \notin 0..(GRID_SIZE - 1)
                                   \/ NextHead.y \notin 0..(GRID_SIZE - 1))
               [] t.cb # "onWin" /\ t.reason = HitSelf ->
                    IsMoveTick /\ NextHead \in Range(snake)
               [] t.cb # "onWin" /\ t.reason = FraudEaten ->
                    IsMoveTick /\ EatsItem(LAMBDA f : f.type = "fraud" /\ ~f.verified)
               [] t.cb # "onWin" /\ t.reason = Collapse ->
                    IsMoveTick /\ EatsItem(LAMBDA f : f.type \in POWERED_TYPES)
               [] t.cb # "onWin" /\ t.reason = TimeOut ->
                    ticks' = ticks + 1 /\ timeLeft' = 0
               [] OTHER -> FALSE

C11_SingleTerminalCallback == [][TerminalShape' /\ TerminalCause]_vars

\* a run ended at the right wall and the clock has moved on since
C11_Witness ==
    /\ over = GameOverWith(HitWall, score)
    /\ isGameOver
    /\ snake[1].x = GRID_SIZE - 1
    /\ score > 0
    /\ now > LastEat.at

----------------------------------------------------------------------------
(* C12: togglePause() flips the paused flag while the run is live and      *)
(* changes nothing once the run has ended.                                 *)

C12_TogglePauseNoOpAfterEnd ==
    togglePause(Game) = IF isGameOver THEN Game ELSE [Game EXCEPT !.isPaused = ~isPaused]

----------------------------------------------------------------------------
(* C13: from start() to the end of the run score never decreases and is    *)
(* never negative; it changes only when a food item is eaten, by that      *)
(* kind's value: normal 3, shield 8, fraud 10, jam 8, drain 6.             *)

PointsOf(type) ==
    CASE type = "normal" -> 3
      [] type = "shield" -> 8
      [] type = "fraud" -> 10
      [] type = "jam" -> 8
      [] type = "drain" -> 6

C13_ScoreMonotone ==
    [][~IsStart
       => /\ score >= 0 /\ score' >= score
          /\ score' # score
             => /\ IsMoveTick
                /\ \E i \in 1..Len(foods) :
                      /\ WouldEat(i)
                      /\ score' = score + PointsOf(foods[i].type)
          /\ \A i \in 1..Len(foods) :
                (IsMoveTick /\ WouldEat(i) /\ ~(foods[i].type = "fraud" /\ ~foods[i].verified))
                => score' = score + PointsOf(foods[i].type)]_vars

\* a jam and a drain have been eaten: 8 + 6
C13_Witness ==
    /\ Len(eatLog) = 2
    /\ eatLog[1].type = "jam" /\ eatLog[2].type = "drain"
    /\ score = 14
    /\ ~isGameOver

----------------------------------------------------------------------------
(* Vocabulary of the properties of the wall API *)

\* the token is a valid token of a user the database knows
KnownUserToken(token) == token \in {u.id : u \in usersCollection}

\* this step answers a request to the route
Answers(route) ==
    /\ res'.route = route
    /\ res' # res \/ DB' # DB

----------------------------------------------------------------------------
(* C14: POST /projects/:owner/:repo/kudos stores an entry only when the    *)
(* request carries a valid token of a known user, the project exists and   *)
(* GitHub reports admin, maintain or write; every other request is         *)
(* answered 400, 401, 403 or 404 and leaves the stored kudos unchanged.    *)

C14_MaintainerOnlyPosting ==
    [][Answers("POST kudos")
       => IF res'.status = 201
          THEN /\ KnownUserToken(res'.token)
               /\ \E p \in projectsCollection : p.owner = res'.owner /\ p.repo = res'.repo
               /\ res'.gh \in {"admin", "maintain", "write"}
               /\ Len(kudosCollection') = Len(kudosCollection) + 1
               /\ SubSeq(kudosCollection', 1, Len(kudosCollection)) = kudosCollection
               /\ kudosCollection'[Len(kudosCollection')].project_id = <<res'.owner, res'.repo>>
               /\ kudosCollection'[Len(kudosCollection')].boosts = 0
          ELSE /\ res'.status \in {400, 401, 403, 404}
               /\ kudosCollection' = kudosCollection]_vars

\* a maintainer's kudos has been stored on a wall that already had a seeded entry
C14_Witness ==
    /\ res.route = "POST kudos" /\ res.status = 201 /\ res.gh = "maintain"
    /\ Len(kudosCollection) = 2
    /\ kudosCollection[1].tag = "community"
    /\ kudosCollection[2].tag = "docs"

----------------------------------------------------------------------------
(* C15: no request without a valid token of a known user changes stored   *)
(* wall data: projects with their settings and featured ids, kudos with    *)
(* their boosts.                                                           *)

C15_PublicReadOnly ==
    [][(projectsCollection' # projectsCollection \/ kudosCollection' # kudosCollection)
       => KnownUserToken(res'.token)]_vars

----------------------------------------------------------------------------
(* C16: once the timers run, while the run is paused or has ended, a       *)
(* movement tick and a 1 s                                                 *)
(* tick change no field of the run state and fire no callback; until       *)
(* resume(), togglePause() or start() nothing but the paused flag and the  *)
(* queued direction changes.                                               *)

C16_SuspendedTicksFrame ==
    [][(sceneRef /\ (isPaused \/ isGameOver))
       => /\ \A d \in StepDraws(Game, now, EnvMain) : step(Game, now, d) = Game
          /\ tickTimer(Game) = Game
          /\ ~IsStart
             => /\ snake' = snake /\ direction' = direction /\ foods' = foods
                /\ score' = score /\ timeLeft' = timeLeft
                /\ speed' = speed /\ moveTimerDelay' = moveTimerDelay
                /\ stunUntil' = stunUntil /\ reverseUntil' = reverseUntil
                /\ poweredEatTimes' = poweredEatTimes /\ lastL2' = lastL2
                /\ isGameOver' = isGameOver
                /\ over' = over /\ hud' = hud
                /\ moves' = moves /\ ticks' = ticks]_vars

\* a run paused after two moves and a 1 s tick, the clock having moved on
C16_Witness ==
    /\ isPaused /\ ~isGameOver
    /\ moves = 2 /\ ticks = 1
    /\ now = 3000
    /\ Len(eatLog) = 1

----------------------------------------------------------------------------
(* C17: from a shield eat at clock reading t until the clock reaches       *)
(* t + 2000 a movement tick changes nothing and does not consume the       *)
(* queued direction, inputs still update the queued direction and 1 s      *)
(* ticks still count down; a movement tick at or after t + 2000 applies    *)
(* the queued direction.                                                   *)

\* the shield eats of the run whose effect was applied (a collapsing one has none)
ShieldEats ==
    {k \in 1..Len(eatLog) :
        eatLog[k].type = "shield" /\ ~(k = Len(eatLog) /\ Collapsed)}

\* the end of the latest stun, from the history of eats
StunEnd ==
    IF ShieldEats = {} THEN 0
    ELSE eatLog[CHOOSE k \in ShieldEats : \A j \in ShieldEats : j <= k].at + STUN_MS

C17_ShieldStun ==
    /\ stunUntil = StunEnd
    /\ (runs > 0 /\ ~isPaused /\ ~isGameOver)
       => \A d \in StepDraws(Game, now, EnvStun) :
             LET r == step(Game, now, d)
             IN IF now < StunEnd
                THEN /\ r = Game
                     /\ tickTimer(Game).timeLeft = timeLeft - 1
                     /\ \A e \in Directions :
                           LET used == IF now < reverseUntil THEN Neg(e) ELSE e
                           IN applyDirection(Game, e, now).nextDirection
                                 = IF used = Neg(direction) THEN nextDirection ELSE used
                ELSE /\ r.direction = nextDirection
                     /\ \/ r.isGameOver /\ r.over # <<>>
                        \/ r.snake[1] = NextHead

\* the stun has just ended with a turn queued during it
C17_Witness ==
    /\ ShieldEats # {}
    /\ ~isGameOver /\ ~isPaused
    /\ now = StunEnd
    /\ nextDirection # direction
    /\ ticks > 0

\* inside the stun
C17_WitnessInside ==
    /\ ShieldEats # {}
    /\ ~isGameOver /\ ~isPaused
    /\ now < StunEnd /\ now > LastEat.at
    /\ nextDirection # direction

----------------------------------------------------------------------------
(* C18: a movement tick whose new head is a cell of the snake as it is     *)
(* before the move, the tail's cell included, ends the run with            *)
(* "Hit yourself." and leaves the snake unchanged.                         *)

C18_SelfCollision ==
    [][(IsMoveTick /\ \E k \in 1..Len(snake) : snake[k] = NextHead)
       => /\ over' = GameOverWith(HitSelf, score)
          /\ isGameOver'
          /\ snake' = snake /\ foods' = foods /\ score' = score]_vars

\* the head ran into the cell the tail was about to leave
C18_Witness ==
    /\ over = GameOverWith(HitSelf, score)
    /\ NextHead = snake[Len(snake)]

\* the head ran into the middle of the body
C18_WitnessBody ==
    /\ over = GameOverWith(HitSelf, score)
    /\ \E k \in 2..(Len(snake) - 1) : NextHead = snake[k]

----------------------------------------------------------------------------
(* C19: in every state every segment of the snake lies inside the 20x20    *)
(* grid, no two segments share a cell and consecutive segments are at      *)
(* Manhattan distance 1; a move whose new head is outside the grid ends    *)
(* the run with "Hit the wall." and leaves the snake unchanged.            *)

WellFormed ==
    /\ \A i \in 1..Len(snake) :
          snake[i].x \in 0..(GRID_SIZE - 1) /\ snake[i].y \in 0..(GRID_SIZE - 1)
    /\ \A i, j \in 1..Len(snake) : i # j => snake[i] # snake[j]
    /\ \A i \in 1..(Len(snake) - 1) :
          Abs(snake[i].x - snake[i + 1].x) + Abs(snake[i].y - snake[i + 1].y) = 1

C19_WellFormedSnake ==
    [][/\ WellFormed'
       /\ (IsMoveTick /\ (NextHead.x \notin 0..(GRID_SIZE - 1)
                          \/ NextHead.y \notin 0..(GRID_SIZE - 1)))
          => /\ over' = GameOverWith(HitWall, score)
             /\ isGameOver'
             /\ snake' = snake]_vars

\* the run ended at the bottom wall
C19_Witness ==
    /\ over = GameOverWith(HitWall, score)
    /\ snake[1].y = GRID_SIZE - 1
    /\ direction = Down

\* the run ended at the left wall
C19_WitnessLeft ==
    /\ over = GameOverWith(HitWall, score)
    /\ snake[1].x = 0
    /\ direction = Left

----------------------------------------------------------------------------
(* C20: the eat that triggers the security collapse adds its points and    *)
(* is recorded as last eaten, and has none of its later effects: no stun,  *)
(* no reversal, no drain, no change of the movement interval, no win; the  *)
(* run is reported lost with the new score, also at 100 or more.           *)

C20_CollapseShortCircuits ==
    [][(over' # over /\ ~IsStart /\ over'[1].reason = Collapse)
       => \E i \in 1..Len(foods) :
             /\ foods[i].x = NextHead.x /\ foods[i].y = NextHead.y
             /\ score' = score + PointsOf(foods[i].type)
             /\ lastL2' = foods[i].name
             /\ hud'.score = score' /\ hud'.lastL2 = lastL2'
             /\ stunUntil' = stunUntil
             /\ reverseUntil' = reverseUntil
             /\ snake' = <<NextHead>> \o snake
             /\ speed' = speed /\ moveTimerDelay' = moveTimerDelay
             /\ over' = GameOverWith(Collapse, score')
             /\ isGameOver']_vars

\* a collapsing eat took score over the first speed threshold: the interval is the old one
C20_Witness ==
    /\ Collapsed
    /\ score - PointsOf(LastEat.type) < 40 /\ score >= 40
    /\ speed = INITIAL_SPEED

\* a drain was the collapsing eat: the snake kept its length
C20_WitnessDrain ==
    /\ Collapsed
    /\ LastEat.type = "drain"
    /\ Len(snake) = 6

----------------------------------------------------------------------------
(* C21: in every state of a live run the interval of the running movement  *)
(* timer is the one the score prescribes: 90 ms from 70 points, 110 ms     *)
(* from 40 points, 140 ms below; it never increases during a run.          *)

IntervalFor(sc) == IF sc >= 70 THEN 90 ELSE IF sc >= 40 THEN 110 ELSE 140

C21_IntervalFromScore ==
    [][/\ (runs' > 0 /\ ~isGameOver') => moveTimerDelay' = IntervalFor(score')
       /\ (runs > 0 /\ ~IsStart) => moveTimerDelay' <= moveTimerDelay]_vars

----------------------------------------------------------------------------
(* C22: setDirection changes at most the queued direction, also on a       *)
(* paused, stunned or ended run; the 1 s tick changes at most              *)
(* timeRemaining and ended (and reports them); the snake, the food and     *)
(* score are changed only by a movement tick or by start().                *)

C22_SingleWriterFrame ==
    [][/\ \A d \in Directions :
             LET r == applyDirection(Game, d, now)
             IN r = [Game EXCEPT !.nextDirection = r.nextDirection]
       /\ LET t == tickTimer(Game)
          IN t = [Game EXCEPT !.timeLeft = t.timeLeft, !.isGameOver = t.isGameOver,
                              !.hud = t.hud, !.over = t.over]
       /\ (snake' # snake \/ foods' # foods \/ score' # score \/ direction' # direction)
          => (IsMoveTick \/ IsStart)]_vars

\* a direction was entered after the run had ended at a wall or on the snake
C22_Witness ==
    /\ isGameOver
    /\ over[1].reason \in {FraudEaten, Collapse}
    /\ nextDirection # direction
    /\ now > 0

----------------------------------------------------------------------------
(* C23: with the 1 s timer firing again and again while the run is not     *)
(* paused, and no pause lasting forever, a run created by start() ends, at *)
(* the latest on its 90th 1 s tick.                                        *)

\* no run sees a 91st tick, and the 90th leaves it ended
EndsByLastTick == ticks <= START_TIME /\ (ticks = START_TIME => isGameOver)

\* the claim as stated: every run reaches ended = true
C23_Original ==
    /\ []EndsByLastTick
    /\ \A r \in 1..MaxRunsTimer :
          (runs = r /\ ~isGameOver) ~> (runs = r /\ isGameOver)

\* as amended: every run reaches ended = true unless a further start() replaces it
C23_RunEndsUnlessRestarted ==
    /\ []EndsByLastTick
    /\ \A r \in 1..MaxRunsTimer :
          (runs = r /\ ~isGameOver) ~> ((runs = r /\ isGameOver) \/ runs > r)

\* the second run was ended by its 90th tick, after a pause
C23_Witness ==
    /\ runs = MaxRunsTimer
    /\ ticks = START_TIME
    /\ over = GameOverWith(TimeOut, score)
    /\ moves = MaxMovesTimer
    /\ score > 0

----------------------------------------------------------------------------
(* C24: once a movement tick has moved the snake without ending the run,   *)
(* every fraud item at Manhattan distance 1 from the head is verified,     *)
(* items spawned by that tick included, and stays so until the next tick;  *)
(* hence a run ends on an unverified fraud item only on the first movement *)
(* tick after start(), on an item start() spawned next to the initial head.*)

\* fraud item j lies next to the head
NextToHead(j) ==
    /\ foods[j].type = "fraud"
    /\ Abs(foods[j].x - snake[1].x) + Abs(foods[j].y - snake[1].y) = 1

C24_AdjacentFraudVerified ==
    [][/\ (runs > 0 /\ moves > 0 /\ ~isGameOver)
          => \A j \in 1..Len(foods) : NextToHead(j) => foods[j].verified
       /\ (IsMoveTick /\ over = <<>> /\ over' = GameOverWith(FraudEaten, score))
          => /\ moves = 0
             /\ snake = InitialSnake
             /\ \E i \in 1..Len(foods) : WouldEat(i) /\ NextToHead(i) /\ ~foods[i].verified]_vars

\* the tick that ate the first item spawned a fraud item next to the new head
C24_Witness ==
    /\ ~isGameOver
    /\ moves = 1 /\ Len(eatLog) = 1
    /\ Len(foods) = 1
    /\ NextToHead(1) /\ foods[1].verified

\* the item spawned next to the head by a tick was eaten later and the run goes on
C24_WitnessEaten ==
    /\ ~isGameOver
    /\ moves = 2 /\ Len(eatLog) = 2
    /\ LastEat.type = "fraud"
    /\ snake[1] = Cell(10, 10)

----------------------------------------------------------------------------
(* C25: the queued direction is never the exact inverse of the direction   *)
(* in force, whatever directions are entered, with or without an active    *)
(* jam, across ticks and start(); hence no movement tick moves the head    *)
(* onto the segment directly behind it.                                    *)

C25_NeverReverses ==
    [][/\ ~(nextDirection.x = -direction.x /\ nextDirection.y = -direction.y)
       /\ (TickEffective /\ Len(snake) >= 2) => NextHead # snake[2]]_vars

\* a direction entered under the jam was queued inverted, after the snake had turned
C25_Witness ==
    /\ now < reverseUntil
    /\ ~isGameOver
    /\ direction # Right
    /\ nextDirection # direction

----------------------------------------------------------------------------
(* C26: there are never more than 4 food items and their number never      *)
(* increases during a run: an eat removes one and spawns at most one; an   *)
(* item lost to a skipped spawn is not replaced before the next start().   *)

C26_FoodCountNeverGrows ==
    [][/\ Len(foods) <= 4
       /\ ~IsStart => Len(foods') <= Len(foods)
       /\ \A i \in 1..Len(foods) :
             (IsMoveTick /\ WouldEat(i)) => Len(foods') \in {Len(foods) - 1, Len(foods)}]_vars

\* two eats whose spawns were skipped: two items are left of four
C26_Witness ==
    /\ runs > 0
    /\ Len(eatLog) = 2
    /\ Len(foods) = 2
    /\ ~isGameOver

\* start() itself left fewer than four items and an eat kept the count
C26_WitnessStart ==
    /\ runs > 0
    /\ Len(eatLog) = 1
    /\ Len(foods) = 3
    /\ moves = 1

----------------------------------------------------------------------------
(* C27: between create() and the first start() no tick changes the run     *)
(* state or reports anything: timeRemaining stays 90, ended stays false,   *)
(* onTime and onGameOver are not called.                                   *)

C27_IdleBeforeStart ==
    runs = 0 => /\ timeLeft = 90
                /\ ~isGameOver
                /\ hud = NoHud
                /\ over = <<>>
                /\ snake = <<>> /\ foods = <<>> /\ score = 0

----------------------------------------------------------------------------
(* C28: after any submitScore calls top has at most 20 entries, is sorted  *)
(* by score in non-increasing order, holds each player at most once, and   *)
(* every entry's score is the bestScore of its player; bestScore never     *)
(* decreases; a submission of score 0 reverts and changes nothing.         *)

C28_ListInvariant ==
    [][/\ Len(top') <= 20
       /\ \A i, j \in 1..Len(top') : i < j => top'[i].score >= top'[j].score
       /\ \A i, j \in 1..Len(top') : top'[i].player = top'[j].player => i = j
       /\ \A i \in 1..Len(top') : top'[i].score = bestScore'[top'[i].player]
       /\ \A p \in Players : bestScore'[p] >= bestScore[p]
       /\ (receipt'.sender # 0 /\ receipt'.score = 0)
          => (receipt'.reverted /\ bestScore' = bestScore /\ top' = top)]_vars

\* a full list with three different scores, the last call having raised an entry
C28_Witness ==
    /\ Len(top) = MAX_ENTRIES
    /\ top[1].score = 3 /\ top[3].score = 2 /\ top[MAX_ENTRIES].score = 1
    /\ receipt.sender = top[1].player
    /\ ~receipt.reverted

\* a submission of 0 was reverted on a full list
C28_WitnessRevert ==
    /\ Len(top) = MAX_ENTRIES
    /\ receipt.sender # 0 /\ receipt.score = 0 /\ receipt.reverted

----------------------------------------------------------------------------
(* C29: top holds the highest best scores: while fewer than 21 players     *)
(* have submitted, every player with a best score is in top; once top has  *)
(* 20 entries, no player outside top has a best score above the lowest     *)
(* score in top, and a player outside top enters as soon as their new      *)
(* best exceeds that lowest score.                                         *)

\* the players getTopScores() reports
Listed(t) == {getTopScores(t).players[i] : i \in 1..Len(t)}

\* no score getTopScores() reports is below v
AllAtLeast(t, v) == \A i \in 1..Len(t) : getTopScores(t).scores[i] >= v

C29_TopHoldsHighest ==
    [][/\ Cardinality({p \in Players : bestScore'[p] > 0}) < 21
          => \A p \in Players : bestScore'[p] > 0 => p \in Listed(top')
       /\ Len(top') = 20
          => \A p \in Players \ Listed(top') : AllAtLeast(top', bestScore'[p])
       /\ \A p \in Players \ Listed(top) :
             (/\ Len(top) = 20
              /\ receipt'.sender = p
              /\ bestScore'[p] > bestScore[p]
              /\ ~AllAtLeast(top, bestScore'[p]))
             => /\ p \in Listed(top')
                /\ \E q \in Listed(top) \ Listed(top') : AllAtLeast(top, bestScore[q])]_vars

\* the last caller took the place of a player whose best equals the lowest score listed
C29_Witness ==
    /\ Len(top) = MAX_ENTRIES
    /\ receipt.sender \in Listed(top) \ Crowd
    /\ receipt.score = 3
    /\ \E q \in Crowd \ Listed(top) : bestScore[q] = 2 /\ AllAtLeast(top, 2)

\* a player with a best score of 1 is outside a full list
C29_WitnessOut ==
    /\ Len(top) = MAX_ENTRIES
    /\ \E p \in Players \ Listed(top) : bestScore[p] = 1

----------------------------------------------------------------------------
(* C30: the two copies of the game loop agree: from a run just started     *)
(* (start() in src/src/game.js, restartGame() in src/main.js, the scene    *)
(* created), the same movement ticks, 1 s ticks and direction inputs with  *)
(* the same clock readings and spawn choices take both through the same    *)
(* run states, and both end with the same reason.                          *)

\* the overlay main.js shows for the terminal callback cb of game.js
OverlayFor(cb) ==
    IF cb.cb = "onWin"
    THEN [hidden |-> FALSE, title |-> "Ethereum Wins",
          subtitle |-> "Target score reached before time ran out."]
    ELSE [hidden |-> FALSE, title |-> "Game Over", subtitle |-> cb.reason]

C30_WitnessJam ==
    /\ runs > 0
    /\ ~main.isGameOver
    /\ now < main.reverseUntil
    /\ main.direction # Right
    /\ main.nextDirection # main.direction
    /\ main.nextDirection = nextDirection

====
